---- MODULE Spec2Model ----
(***************************************************************************)
(* ResQVision: the temporal fusion core.                                   *)
(*                                                                         *)
(*   DetectionEngine.detect  (detection_engine.py)  sliding confirmation   *)
(*                           window, median count, EMA of the confidence,  *)
(*                           decaying heat map                             *)
(*   RiskAgent.assess        (agents/risk_agent.py) weighted risk score,   *)
(*                           hazard overrides, clamp, risk level           *)
(*   CrowdMonitor.estimate   (crowd_monitor.py)     count and area ratio,  *)
(*                           edge-density fallback                         *)
(*   MicroMotionDetector.detect (micro_motion.py)   frame differencing     *)
(*                           with a floor, optical-flow score              *)
(*   BreathingAnalyzer.analyse (breathing_analysis.py) per-subject ring    *)
(*                           buffers, band share of the spectrum           *)
(*   ResQVisionPipeline.run_pipeline_frame (main.py) one frame through     *)
(*                           every component, mode dispatch of the flood   *)
(*                           and rubble detectors, report and Gemini       *)
(*                           schedule; the dashboard's displayed risk      *)
(*                           (ui_dashboard.py)                             *)
(*                                                                         *)
(* Numbers.  The program computes in binary floating point.  The model     *)
(* computes exactly: a confidence is a reduced fraction <<num, den>>, and  *)
(* the factors handed to the risk agent are integers in units of 1/Scale   *)
(* (the program rounds them to four decimals).  Python's round() of a      *)
(* value that is an exact decimal tie depends on the representation error  *)
(* of the float (the program gives round(57.5) = 57 and round(24.5) = 25   *)
(* for weighted sums that are exactly x.5), so a rounding is modelled by   *)
(* the set of its outcomes: one value, or both neighbours at an exact tie. *)
(* The heat map is a float32 array: its values are kept as the number of   *)
(* rounded float32 products since the stamp.                               *)
(***************************************************************************)
EXTENDS Integers, Sequences, FiniteSets, TLC

\* ------------------------------------------------------------------------
\* Bounds of the model
\* ------------------------------------------------------------------------
MaxFrames   == 4    \* detect calls per engine with freely chosen frames
MaxCount    == 2    \* detections in one frame
MaxWindow   == 3    \* largest confirmation_window with freely chosen frames
BurstFrames == 26   \* detect calls per engine of the default configuration
BurstCount  == 5    \* detections in a frame of a burst

\* ------------------------------------------------------------------------
\* Exact fractions
\* ------------------------------------------------------------------------
RECURSIVE GCD(_, _)
GCD(a, b) == IF b = 0 THEN a ELSE GCD(b, a % b)

Norm(n, d) == IF n = 0 THEN <<0, 1>> ELSE <<n \div GCD(n, d), d \div GCD(n, d)>>

Zero == <<0, 1>>
One  == <<1, 1>>

\* confidence_threshold = 0.25: the smallest confidence a kept box can have
ConfidenceThreshold == <<1, 4>>

\* x rounded to an integer: the outcomes of round(n / d)
RoundOutcomes(n, d) ==
    LET q == n \div d
        r == n % d
    IN  IF 2 * r < d THEN {q}
        ELSE IF 2 * r > d THEN {q + 1}
        ELSE {q, q + 1}

\* one decimal digit of a long division: <<quotient, remainder>>
DivStep(qr, d) == <<qr[1] * 10 + (qr[2] * 10) \div d, (qr[2] * 10) % d>>

\* round(f, 4) of a fraction f, in units of 1/10000
Round4Outcomes(f) ==
    LET qr == DivStep(DivStep(DivStep(DivStep(<<f[1] \div f[2], f[1] % f[2]>>,
                                              f[2]), f[2]), f[2]), f[2])
    IN  IF 2 * qr[2] < f[2] THEN {qr[1]}
        ELSE IF 2 * qr[2] > f[2] THEN {qr[1] + 1}
        ELSE {qr[1], qr[1] + 1}

\* ------------------------------------------------------------------------
\* DetectionEngine
\* ------------------------------------------------------------------------
VARIABLES
    confirmation_window,    \* self.confirmation_window  (maxlen of the deque)
    confirmation_min,       \* self.confirmation_min
    ema_alpha,              \* self.ema_alpha, a fraction
    history,                \* self._history: sequence of <<count, avg_conf>>
    smoothed_confidence,    \* self._smoothed_confidence, a fraction
    confirmed_count,        \* self._confirmed_count
    frame_idx,              \* self._frame_idx
    det,                    \* the dict returned by the last detect call that returned
    raised,                 \* the last detect call raised instead of returning
    heatmap,                \* self._heatmap, at the tracked pixels
    heat_in,                \* the last heat map update: the array it found,
                            \* its frame shape and centroids, the number of
                            \* updates it stands for and its number
    frames                  \* the calls made so far: [raw_count, avg_conf, is_photo]

engineVars == <<confirmation_window, confirmation_min, ema_alpha, history,
                smoothed_confidence, confirmed_count, frame_idx, det, raised,
                heatmap, heat_in, frames>>

NoDet == [survivor_count |-> 0, raw_count |-> 0, confidence_score |-> 0,
          confirmed |-> FALSE, frame_index |-> 0]

\* the constructor's defaults
DefaultWindow == 20
DefaultMin    == 15
DefaultAlpha  == <<3, 10>>

\* a deque that refuses the new entry when full instead of evicting the oldest
DequeAppendKeepOld(q, x, maxlen) ==
    IF maxlen = 0 THEN <<>>
    ELSE IF Len(q) = maxlen THEN q
    ELSE Append(q, x)

\* deque(maxlen=confirmation_window).append(x)
DequeAppend(q, x, maxlen) ==
    IF maxlen = 0 THEN <<>>
    ELSE IF Len(q) = maxlen THEN Append(Tail(q), x)
    ELSE Append(q, x)

\* counts every frame of the window: c >= 0 instead of c > 0
FramesWithDetectionsGE(h) == Cardinality({i \in DOMAIN h : h[i][1] >= 0})

\* sum(1 for (c, _) in self._history if c > 0)
FramesWithDetections(h) == Cardinality({i \in DOMAIN h : h[i][1] > 0})

\* [c for (c, _) in self._history if c > 0]
RECURSIVE NonZeroCounts(_)
NonZeroCounts(h) ==
    IF h = <<>> THEN <<>>
    ELSE IF Head(h)[1] > 0 THEN <<Head(h)[1]>> \o NonZeroCounts(Tail(h))
    ELSE NonZeroCounts(Tail(h))

\* sorted(counts), by insertion
RECURSIVE InsertSorted(_, _)
InsertSorted(x, s) ==
    IF s = <<>> THEN <<x>>
    ELSE IF x <= Head(s) THEN <<x>> \o s
    ELSE <<Head(s)>> \o InsertSorted(x, Tail(s))

RECURSIVE SortCounts(_)
SortCounts(s) ==
    IF s = <<>> THEN <<>> ELSE InsertSorted(Head(s), SortCounts(Tail(s)))

\* the mean instead of the median
MeanInt(counts) ==
    LET s == SortCounts(counts)
        sum[i \in 0..Len(s)] == IF i = 0 THEN 0 ELSE sum[i - 1] + s[i]
    IN  sum[Len(s)] \div Len(s)

\* int(np.median(counts)) of a non-empty list: the middle element, or the
\* mean of the two middle elements truncated to an integer
MedianInt(counts) ==
    LET s == SortCounts(counts)
        n == Len(s)
    IN  IF n % 2 = 1 THEN s[(n + 1) \div 2]
        ELSE (s[n \div 2] + s[n \div 2 + 1]) \div 2

\* > instead of >=
ConfirmedStrict(h, cmin, is_photo) ==
    IF is_photo THEN TRUE ELSE FramesWithDetections(h) > cmin

\* confirmed, as detect decides it after the append
Confirmed(h, cmin, is_photo) ==
    IF is_photo THEN TRUE ELSE FramesWithDetections(h) >= cmin

\* int(np.median([])) is int(nan), which raises ValueError: a streaming frame
\* that is confirmed while no entry of the window has a detection
MedianRaises(h, confirmed, is_photo) ==
    ~is_photo /\ confirmed /\ NonZeroCounts(h) = <<>>

\* the photo branch missing: the window count is reported for a photo too
ConfirmedCountNoBypass(h, confirmed, raw_count, is_photo) ==
    IF confirmed /\ NonZeroCounts(h) # <<>> THEN MedianInt(NonZeroCounts(h))
    ELSE 0

\* self._confirmed_count, as detect sets it after the append
ConfirmedCount(h, confirmed, raw_count, is_photo) ==
    IF is_photo THEN raw_count
    ELSE IF confirmed THEN MedianInt(NonZeroCounts(h))
    ELSE 0

\* the weights swapped: (1 - alpha) * avg_conf + alpha * prev
EmaUpdateSwapped(alpha, avg_conf, prev) ==
    Norm((alpha[2] - alpha[1]) * avg_conf[1] * prev[2]
           + alpha[1] * prev[1] * avg_conf[2],
         alpha[2] * avg_conf[2] * prev[2])

\* the previous value not decayed: alpha * avg_conf + prev
EmaUpdateNoDecay(alpha, avg_conf, prev) ==
    Norm(alpha[1] * avg_conf[1] * prev[2] + alpha[2] * prev[1] * avg_conf[2],
         alpha[2] * avg_conf[2] * prev[2])

\* alpha * avg_conf + (1 - alpha) * prev
EmaUpdate(alpha, avg_conf, prev) ==
    Norm(alpha[1] * avg_conf[1] * prev[2]
           + (alpha[2] - alpha[1]) * prev[1] * avg_conf[2],
         alpha[2] * avg_conf[2] * prev[2])

\* The heat map is kept at the pixels of TrackedPixels, <<x, y>>: a pixel of
\* the array changes independently of the others, so the tracked pixels
\* evolve as they do in the full array.  The array is float32.  A heat value
\* is written as its age k >= 1: the value 1.0 of a stamp multiplied k times
\* by float32(0.97), each product rounded to float32.  The values fall with
\* the age down to age HeatStall, 16 steps of the smallest float32 (about
\* 2.2e-44), which the rounded product leaves as it is.  Cold is the value
\* 0.0.
HeatRadius == 40
Cold == 0
HeatStall == 3296
TrackedPixels == {<<0, 10>>, <<95, 10>>, <<200, 10>>, <<600, 400>>}

\* self._heatmap = None
NoHeatmap == [alloc |-> FALSE, shape |-> <<0, 0>>, heat |-> <<>>]

\* the tracked pixels inside an array of shape <<h, w>>
PixelsOf(shape) == {p \in TrackedPixels : p[1] < shape[2] /\ p[2] < shape[1]}

\* np.zeros((h, w), dtype=np.float32)
ZeroHeatmap(shape) ==
    [alloc |-> TRUE, shape |-> shape, heat |-> [p \in PixelsOf(shape) |-> Cold]]

\* the pixels cv2.circle(heatmap, (cx, cy), 40, 1.0, -1) sets to 1.0
InDisk(p, c) ==
    (p[1] - c[1]) * (p[1] - c[1]) + (p[2] - c[2]) * (p[2] - c[2])
        <= HeatRadius * HeatRadius

\* heat * float32(0.97) in float32, for a heat value of the given age
Decay(age) ==
    IF age = Cold THEN Cold
    ELSE IF age >= HeatStall THEN HeatStall
    ELSE age + 1

\* the pixel p is inside the disk of one of the centroids
Stamped(p, centroids) == \E i \in DOMAIN centroids : InDisk(p, centroids[i])

\* an update that takes the old heat along into an array of another shape
UpdateHeatmapKept(hm, shape, centroids) ==
    LET cur == [alloc |-> TRUE, shape |-> shape,
                heat |-> [p \in PixelsOf(shape) |->
                             IF hm.alloc /\ p \in DOMAIN hm.heat
                             THEN hm.heat[p] ELSE Cold]]
    IN  [cur EXCEPT !.heat =
            [p \in DOMAIN cur.heat |->
                IF Stamped(p, centroids) THEN 1 ELSE Decay(cur.heat[p])]]

\* an update that decays the stamps of this frame only
UpdateHeatmapNoDecay(hm, shape, centroids) ==
    LET cur == IF ~hm.alloc \/ hm.shape # shape THEN ZeroHeatmap(shape) ELSE hm
    IN  [cur EXCEPT !.heat =
            [p \in DOMAIN cur.heat |->
                IF Stamped(p, centroids) THEN 1 ELSE cur.heat[p]]]

\* DetectionEngine._update_heatmap(frame_shape, centroids)
UpdateHeatmap(hm, shape, centroids) ==
    LET cur == IF ~hm.alloc \/ hm.shape # shape THEN ZeroHeatmap(shape) ELSE hm
    IN  [cur EXCEPT !.heat =
            [p \in DOMAIN cur.heat |->
                IF Stamped(p, centroids) THEN 1 ELSE Decay(cur.heat[p])]]

\* a heat value after n more products
RECURSIVE DecayTimes(_, _)
DecayTimes(age, n) ==
    IF n = 0 THEN age
    ELSE IF n = 1 THEN Decay(age)
    ELSE LET half == DecayTimes(age, n \div 2)
         IN  IF half = Cold THEN Cold ELSE DecayTimes(half, n - n \div 2)

\* n updates in a row with the shape of the array and no centroids: nothing
\* is reallocated or stamped, every pixel is multiplied n times
Quiet(hm, n) ==
    [hm EXCEPT !.heat = [p \in DOMAIN hm.heat |-> DecayTimes(hm.heat[p], n)]]

\* no update yet
NoHeatIn == [before |-> NoHeatmap, shape |-> <<0, 0>>, centroids |-> <<>>,
             updates |-> 0, step |-> 0]

\* DetectionEngine.__init__ with the given constructor arguments
EngineInit(w, cmin, alpha) ==
    /\ confirmation_window = w
    /\ confirmation_min = cmin
    /\ ema_alpha = alpha
    /\ history = <<>>
    /\ smoothed_confidence = Zero
    /\ confirmed_count = 0
    /\ frame_idx = 0
    /\ det = NoDet
    /\ raised = FALSE
    /\ heatmap = NoHeatmap
    /\ heat_in = NoHeatIn
    /\ frames = <<>>

\* DetectionEngine.detect on a frame of the given shape, <<h, w>>, in which
\* the detector finds boxes with the given centroids, <<cx, cy>>, and mean
\* confidence avg_conf
Detect(shape, centroids, avg_conf, is_photo) ==
    LET raw_count == Len(centroids)
        h  == DequeAppend(history, <<raw_count, avg_conf>>, confirmation_window)
        c  == Confirmed(h, confirmation_min, is_photo)
        sm == EmaUpdate(ema_alpha, avg_conf, smoothed_confidence)
    IN  /\ frame_idx' = frame_idx + 1
        /\ history' = h
        /\ frames' = Append(frames, [raw_count |-> raw_count,
                                     avg_conf |-> avg_conf,
                                     is_photo |-> is_photo])
        /\ IF MedianRaises(h, c, is_photo)
           THEN /\ raised' = TRUE
                /\ UNCHANGED <<confirmed_count, smoothed_confidence, det,
                                heatmap, heat_in>>
           ELSE /\ raised' = FALSE
                /\ confirmed_count' = ConfirmedCount(h, c, raw_count, is_photo)
                /\ smoothed_confidence' = sm
                /\ heatmap' = UpdateHeatmap(heatmap, shape, centroids)
                /\ heat_in' = [before |-> heatmap, shape |-> shape,
                               centroids |-> centroids, updates |-> 1,
                               step |-> frame_idx + 1]
                /\ \E cs \in Round4Outcomes(sm) :
                      det' = [survivor_count |->
                                  ConfirmedCount(h, c, raw_count, is_photo),
                              raw_count |-> raw_count,
                              confidence_score |-> cs,
                              confirmed |-> c,
                              frame_index |-> frame_idx + 1]
        /\ UNCHANGED <<confirmation_window, confirmation_min, ema_alpha>>

\* avg_conf = float(np.mean(confidences)) if confidences else 0.0; the kept
\* boxes have a confidence in [confidence_threshold, 1]
ConfLevels == {ConfidenceThreshold, One}
AvgConfs(raw_count) == IF raw_count = 0 THEN {Zero} ELSE ConfLevels
FullConf(raw_count) == IF raw_count = 0 THEN Zero ELSE One

\* the frame the pipeline's preprocessor hands over is 480 x 640; its k-th
\* box is centred at <<30 * k, 10>>
FrameShape == <<480, 640>>
Centroids(raw_count) == [k \in 1..raw_count |-> <<30 * k, 10>>]

\* ------------------------------------------------------------------------
\* RiskAgent
\*
\* The float factors of the input are integers in units of 1 / Scale: the
\* pipeline hands over values rounded to four decimals.  The weighted sum and
\* the products are exact here; on the inputs of RiskInputs the program's
\* floats give the same integer parts (int(0.57 * 100) is 56 in floating
\* point, which is why 0.57 and 0.58 are no crowd densities of RiskInputs).
\* ------------------------------------------------------------------------
VARIABLES
    data,       \* the dict handed to RiskAgent.assess
    risk,       \* the dict it returned, NoRisk before the call
    calls       \* the assess calls made so far: the dict handed over, the
                \* same dict after the call and the dict returned

riskVars == <<data, risk, calls>>

Scale == 10000

Min(a, b) == IF a < b THEN a ELSE b
Max(a, b) == IF a > b THEN a ELSE b

\* RiskAgent.WEIGHTS, in percent
WEIGHTS == [survivor_count |-> 15, confidence_score |-> 5, flood_risk |-> 15,
            fire_risk |-> 20, crowd_density |-> 30,
            micro_motion_confidence |-> 15]

\* RiskAgent.THRESHOLDS
THRESHOLDS == << <<80, "CRITICAL">>, <<55, "HIGH">>, <<30, "MEDIUM">>,
                 <<0, "LOW">> >>

\* data.get(key, default) of every key assess reads
NoData == [survivor_count |-> 0, confidence_score |-> 0, flood_risk |-> FALSE,
           water_coverage |-> 0, fire_risk |-> FALSE, fire_coverage |-> 0,
           crowd_density |-> 0, micro_motion_confidence |-> 0,
           is_heavy_crowd_mode |-> FALSE]

NoRisk == [risk_level |-> "NONE", risk_score |-> -1, breakdown |-> <<>>]

\* min(survivor_count / 10, 1.0)
SurvNorm(d) == Min((d.survivor_count * Scale) \div 10, Scale)

\* 1.0 if flag else 0.0
Flag(b) == IF b THEN Scale ELSE 0

\* raw_score * 100, over the denominator Scale
RawScore(d) ==
      WEIGHTS.survivor_count * SurvNorm(d)
    + WEIGHTS.confidence_score * d.confidence_score
    + WEIGHTS.flood_risk * Flag(d.flood_risk)
    + WEIGHTS.fire_risk * Flag(d.fire_risk)
    + WEIGHTS.crowd_density * d.crowd_density
    + WEIGHTS.micro_motion_confidence * d.micro_motion_confidence

\* int(round(raw_score * 100))
BaseScores(d) == RoundOutcomes(RawScore(d), Scale)

\* the flood override without the strict comparison: coverage >= 0.30
ExtraFloodGE(d) ==
    IF d.flood_risk /\ d.water_coverage * 100 >= 30 * Scale
    THEN Min(d.water_coverage * 100, 50 * Scale) \div Scale
    ELSE 0

\* int(min(water_coverage * 100, 50)) if flood > 0 and water_coverage > 0.30
ExtraFlood(d) ==
    IF d.flood_risk /\ d.water_coverage * 100 > 30 * Scale
    THEN Min(d.water_coverage * 100, 50 * Scale) \div Scale
    ELSE 0

\* int(min(fire_coverage * 150, 60)) if fire > 0
ExtraFire(d) ==
    IF d.fire_risk
    THEN Min(d.fire_coverage * 150, 60 * Scale) \div Scale
    ELSE 0

\* int(min(crowd * 100, 60)) if is_heavy_crowd_mode and crowd > 0.4
ExtraCrowd(d) ==
    IF d.is_heavy_crowd_mode /\ d.crowd_density * 10 > 4 * Scale
    THEN Min(d.crowd_density * 100, 60 * Scale) \div Scale
    ELSE 0

\* the upper clamp missing
ClampLower(x) == Max(0, x)

\* max(0, min(100, risk_score))
Clamp(x) == Max(0, Min(100, x))

\* the thresholds compared with > instead of >=
RiskLevelStrict(score) ==
    LET hit == {i \in DOMAIN THRESHOLDS : score > THRESHOLDS[i][1]}
    IN  IF hit = {} THEN "LOW"
        ELSE THRESHOLDS[CHOOSE i \in hit : \A j \in hit : i <= j][2]

\* the first threshold, in descending order, that the score reaches
RiskLevel(score) ==
    LET hit == {i \in DOMAIN THRESHOLDS : score >= THRESHOLDS[i][1]}
    IN  IF hit = {} THEN "LOW"
        ELSE THRESHOLDS[CHOOSE i \in hit : \A j \in hit : i <= j][2]

\* round(x * 100, 1), in tenths
Tenths(x) == RoundOutcomes(x * 1000, Scale)

\* the breakdown dicts assess can return
Breakdowns(d) ==
    [survivor_count : Tenths(SurvNorm(d)),
     confidence_score : Tenths(d.confidence_score),
     flood_risk : Tenths(Flag(d.flood_risk)),
     fire_risk : Tenths(Flag(d.fire_risk)),
     crowd_density : Tenths(d.crowd_density),
     micro_motion_confidence : Tenths(d.micro_motion_confidence)]

\* the largest of the three additions instead of their sum
RiskScoreMax(d, base) ==
    Clamp(base + Max(ExtraFlood(d), Max(ExtraFire(d), ExtraCrowd(d))))

\* the risk_score of assess for a rounded base score
RiskScore(d, base) ==
    Clamp(base + ExtraFlood(d) + ExtraFire(d) + ExtraCrowd(d))

\* an agent that keeps the highest score it has returned so far
AssessResultsSticky(d) ==
    LET last == IF calls = <<>> THEN 0
                ELSE calls[Len(calls)].result.risk_score
    IN  {[risk_level |-> RiskLevel(Max(last, RiskScore(d, base))),
          risk_score |-> Max(last, RiskScore(d, base)),
          breakdown |-> bd] : base \in BaseScores(d), bd \in Breakdowns(d)}

\* the dicts RiskAgent.assess(d) can return
AssessResults(d) ==
    {[risk_level |-> RiskLevel(RiskScore(d, base)),
      risk_score |-> RiskScore(d, base),
      breakdown |-> bd] : base \in BaseScores(d), bd \in Breakdowns(d)}

\* RiskAgent.assess(data)
Assess ==
    /\ risk = NoRisk
    /\ risk' \in AssessResults(data)
    /\ UNCHANGED data

RiskIdle == data = NoData /\ risk = NoRisk /\ calls = <<>>

\* ------------------------------------------------------------------------
\* CrowdMonitor
\*
\* The ratios are exact fractions.  A frame is the array handed to estimate:
\* its height, its width and the number of edge pixels Canny finds in it.
\* ------------------------------------------------------------------------
VARIABLES
    frame_area,             \* self.frame_area
    max_expected_persons,   \* self.max_expected_persons
    crowd_in,               \* the arguments of the last estimate call
    crowd                   \* the dict it returned, NoCrowd before the call

crowdVars == <<frame_area, max_expected_persons, crowd_in, crowd>>

DefaultFrameArea == 640 * 480
DefaultMaxPersons == 20

\* frame_shape = None, frame = None
NoShape == <<>>
NoFrame == [given |-> FALSE, h |-> 0, w |-> 0, edge_pixels |-> 0]

NoCrowdIn == [bboxes |-> <<>>, frame_shape |-> NoShape, frame |-> NoFrame]
NoCrowd == [crowd_density |-> -1, person_count |-> -1,
            occupied_area_ratio |-> -1]

Abs(x) == IF x < 0 THEN -x ELSE x

\* f < g for fractions
Less(f, g) == f[1] * g[2] < g[1] * f[2]

\* min(edge_pixels / (h * w * 0.10), 1.0), 0.0 without a frame
EdgeDensity(frame) ==
    IF ~frame.given THEN Zero
    ELSE IF frame.edge_pixels * 10 >= frame.h * frame.w THEN One
    ELSE Norm(frame.edge_pixels * 10, frame.h * frame.w)

\* occupied += abs(x2 - x1) * abs(y2 - y1) over the boxes
RECURSIVE Occupied(_)
Occupied(bboxes) ==
    IF bboxes = <<>> THEN 0
    ELSE LET b == Head(bboxes)
         IN  Abs(b[3] - b[1]) * Abs(b[4] - b[2]) + Occupied(Tail(bboxes))

\* the area ratio without its cap
AreaRatioUncapped(occupied, area) ==
    IF area > 0 THEN Norm(occupied, area) ELSE Zero

\* min(occupied / self.frame_area, 1.0) if self.frame_area > 0 else 0.0
AreaRatio(occupied, area) ==
    IF area > 0
    THEN IF occupied >= area THEN One ELSE Norm(occupied, area)
    ELSE Zero

\* min(count / self.max_expected_persons, 1.0)
CountRatio(count, persons) ==
    IF count >= persons THEN One ELSE Norm(count, persons)

\* 0.6 * count_ratio + 0.4 * area_ratio
PrimaryDensity(count_ratio, area_ratio) ==
    Norm(6 * count_ratio[1] * area_ratio[2] + 4 * area_ratio[1] * count_ratio[2],
         10 * count_ratio[2] * area_ratio[2])

\* the fallback taken on the edge density alone
EdgeFallbackAlways(density, edge_density) == Less(<<4, 10>>, edge_density)

\* density < 0.1 and edge_density > 0.4
EdgeFallback(density, edge_density) ==
    Less(density, <<1, 10>>) /\ Less(<<4, 10>>, edge_density)

\* the density estimate returns, before it is rounded
Density(bboxes, area, persons, frame) ==
    LET density == PrimaryDensity(CountRatio(Len(bboxes), persons),
                                  AreaRatio(Occupied(bboxes), area))
        edge_density == EdgeDensity(frame)
    IN  IF EdgeFallback(density, edge_density)
        THEN Norm(edge_density[1] * 8, edge_density[2] * 10)
        ELSE density

\* CrowdMonitor.estimate(bboxes, frame_shape, frame)
Estimate(bboxes, frame_shape, frame) ==
    LET area == IF frame_shape # NoShape
                THEN frame_shape[1] * frame_shape[2]
                ELSE frame_area
    IN  /\ frame_area' = area
        /\ crowd_in' = [bboxes |-> bboxes, frame_shape |-> frame_shape,
                        frame |-> frame]
        /\ crowd' \in
              {[crowd_density |-> cd, person_count |-> Len(bboxes),
                occupied_area_ratio |-> oar] :
                  cd \in Round4Outcomes(Density(bboxes, area,
                                                max_expected_persons, frame)),
                  oar \in Round4Outcomes(AreaRatio(Occupied(bboxes), area))}
        /\ UNCHANGED max_expected_persons

\* CrowdMonitor()
CrowdIdle ==
    /\ frame_area = DefaultFrameArea
    /\ max_expected_persons = DefaultMaxPersons
    /\ crowd_in = NoCrowdIn
    /\ crowd = NoCrowd

\* ------------------------------------------------------------------------
\* MicroMotionDetector
\*
\* A gray frame is the blurred grayscale array detect works on.  It is kept
\* by regions of constant intensity: RegionSize[k] pixels have intensity
\* gray[k].  The dense optical flow is the library's: its mean magnitude, over
\* the person boxes or over the frame, is an input of the call.
\* ------------------------------------------------------------------------
VARIABLES
    diff_threshold,         \* self.diff_threshold
    min_motion_pixels,      \* self.min_motion_pixels
    prev_gray,              \* self._prev_gray, NoGray for None
    motion_in,              \* the last detect call: the baseline it found,
                            \* its gray frame and its mean flow magnitude
    motion                  \* the dict it returned, NoMotion before the call

motionVars == <<diff_threshold, min_motion_pixels, prev_gray, motion_in, motion>>

DefaultDiffThreshold == 12
DefaultMinMotionPixels == 30

\* a 480 x 640 frame: one pixel, 29 pixels, 3042 pixels and the rest
RegionSize == <<1, 29, 3042, 304128>>

NoGray == <<>>
NoMotionIn == [prev |-> NoGray, gray |-> NoGray, avg_mag |-> Zero]
NoMotion == [micro_motion_confidence |-> -1, diff_score |-> -1,
             flow_score |-> -1, motion_mask |-> FALSE]

\* gray.shape[0] * gray.shape[1]
RECURSIVE TotalPixels(_)
TotalPixels(k) == IF k = 0 THEN 0 ELSE RegionSize[k] + TotalPixels(k - 1)

\* np.count_nonzero of the mask of the pixels with absdiff > thresh, over
\* the regions 1..k
RECURSIVE DiffPixels(_, _, _, _)
DiffPixels(prev, gray, thresh, k) ==
    IF k = 0 THEN 0
    ELSE (IF Abs(prev[k] - gray[k]) > thresh THEN RegionSize[k] ELSE 0)
            + DiffPixels(prev, gray, thresh, k - 1)

\* min(diff_pixels / max(total_pixels * 0.01, 1), 1.0)
DiffScore(diff_pixels, total_pixels) ==
    IF total_pixels >= 100
    THEN IF diff_pixels * 100 >= total_pixels THEN One
         ELSE Norm(diff_pixels * 100, total_pixels)
    ELSE IF diff_pixels >= 1 THEN One ELSE Zero

\* min(avg_mag / 2.0, 1.0)
FlowScore(avg_mag) ==
    IF avg_mag[1] >= 2 * avg_mag[2] THEN One
    ELSE Norm(avg_mag[1], 2 * avg_mag[2])

\* the combination without the floor on the changed pixels
CombinedNoFloor(diff_pixels, diff_score, flow_score, min_pixels) ==
    Norm(diff_score[1] * flow_score[2] + flow_score[1] * diff_score[2],
         2 * diff_score[2] * flow_score[2])

\* 0.0 if diff_pixels < min_motion_pixels else 0.5 * diff_score + 0.5 * flow_score
Combined(diff_pixels, diff_score, flow_score, min_pixels) ==
    IF diff_pixels < min_pixels THEN Zero
    ELSE Norm(diff_score[1] * flow_score[2] + flow_score[1] * diff_score[2],
              2 * diff_score[2] * flow_score[2])

\* a detector that never stores a frame
BaselineKept(prev, gray) == prev

\* self._prev_gray = gray
Baseline(prev, gray) == gray

\* MicroMotionDetector.detect on a frame with the given gray array, whose
\* flow against the baseline has the mean magnitude avg_mag
MotionDetect(gray, avg_mag) ==
    /\ motion_in' = [prev |-> prev_gray, gray |-> gray, avg_mag |-> avg_mag]
    /\ prev_gray' = Baseline(prev_gray, gray)
    /\ IF prev_gray = NoGray
       THEN motion' = [micro_motion_confidence |-> 0, diff_score |-> 0,
                       flow_score |-> 0, motion_mask |-> FALSE]
       ELSE LET diff_pixels == DiffPixels(prev_gray, gray, diff_threshold,
                                          Len(RegionSize))
                diff_score == DiffScore(diff_pixels,
                                        TotalPixels(Len(RegionSize)))
                flow_score == FlowScore(avg_mag)
                confidence == Combined(diff_pixels, diff_score, flow_score,
                                       min_motion_pixels)
            IN  motion' \in
                  {[micro_motion_confidence |-> c, diff_score |-> d,
                    flow_score |-> f, motion_mask |-> TRUE] :
                      c \in Round4Outcomes(confidence),
                      d \in Round4Outcomes(diff_score),
                      f \in Round4Outcomes(flow_score)}
    /\ UNCHANGED <<diff_threshold, min_motion_pixels>>

\* MicroMotionDetector()
MotionIdle ==
    /\ diff_threshold = DefaultDiffThreshold
    /\ min_motion_pixels = DefaultMinMotionPixels
    /\ prev_gray = NoGray
    /\ motion_in = NoMotionIn
    /\ motion = NoMotion

\* ------------------------------------------------------------------------
\* BreathingAnalyzer
\*
\* A subject of a call is its box and the mean intensity of the frame over
\* its chest region.  self._buffers is a function from the indices that have
\* a buffer, counted from 0, to the samples of the buffer.
\* ------------------------------------------------------------------------
VARIABLES
    fps,            \* self.fps, in Hz
    buffer_size,    \* self.buffer_size
    buffers,        \* self._buffers
    breath_in,      \* the subjects of the last analyse call
    breathing,      \* the dict it returned, NoBreathing before the call
    breath_calls,   \* the analyse calls made so far
    breath_raised   \* the last analyse call raised instead of returning

breathVars == <<fps, buffer_size, buffers, breath_in, breathing, breath_calls,
                breath_raised>>

DefaultFps == 30
DefaultBufferSeconds == <<5, 1>>

NoBreathing == [breathing_confidence |-> -1, per_person |-> <<>>]

\* int(fps * buffer_seconds), buffer_seconds a fraction
BufferSize(f, seconds) == (f * seconds[1]) \div seconds[2]

\* _chest_roi: rows from 30 % to 60 % of the box height
ChestRoi(bbox) ==
    LET h == bbox[4] - bbox[2]
    IN  <<bbox[1], bbox[2] + (h * 3) \div 10, bbox[3], bbox[2] + (h * 6) \div 10>>

\* roi.size == 0 for the chest region clamped to a frame of shape <<h, w>>
RoiEmpty(bbox, shape) ==
    LET c == ChestRoi(bbox)
    IN  \/ Min(shape[2], c[3]) <= Max(0, c[1])
        \/ Min(shape[1], c[4]) <= Max(0, c[2])

\* the share of the spectrum of buf - mean(buf) in the breathing band,
\* 0.15 Hz to 0.50 Hz, rounded to four decimals.  At fps = 1 and with at
\* most 6 samples every frequency k / n of the spectrum but the DC one is in
\* the band, and the share is energy / (energy + 1e-9): 0 for a constant
\* buffer, whose energy is 0, and 1.0 after the rounding for any other.
BandConf(buf) ==
    IF \A i, j \in DOMAIN buf : buf[i] = buf[j] THEN 0 ELSE Scale

\* the indices, counted from 0, of the subjects with a chest region
Sampled(subjects) ==
    {i - 1 : i \in {k \in DOMAIN subjects :
                       ~RoiEmpty(subjects[k].bbox, FrameShape)}}

\* a dict rebuilt from the subjects of the frame: the buffers of the absent
\* subjects are dropped
NewBuffersOfFrame(bufs, subjects, size) ==
    [i \in Sampled(subjects) |->
        DequeAppend(IF i \in DOMAIN bufs THEN bufs[i] ELSE <<>>,
                    subjects[i + 1].mean, size)]

\* self._buffers after the loop over the subjects
NewBuffers(bufs, subjects, size) ==
    [i \in DOMAIN bufs \cup Sampled(subjects) |->
        IF i \in Sampled(subjects)
        THEN DequeAppend(IF i \in DOMAIN bufs THEN bufs[i] ELSE <<>>,
                         subjects[i + 1].mean, size)
        ELSE bufs[i]]

\* not (len(buf) < self.buffer_size // 2)
EnoughSamples(buf, size) == Len(buf) >= size \div 2

\* the per_person list of the call
PerPerson(subjects, bufs, size) ==
    [k \in DOMAIN subjects |->
        [person_id |-> k - 1,
         breathing_conf |->
            IF k - 1 \notin Sampled(subjects) THEN 0
            ELSE IF ~EnoughSamples(bufs[k - 1], size) THEN 0
            ELSE BandConf(bufs[k - 1])]]

\* the confidence of the first subject instead of the largest
MaxConfFirst(per_person) ==
    IF per_person = <<>> THEN 0 ELSE per_person[1].breathing_conf

\* max((p["breathing_conf"] for p in per_person), default=0.0)
MaxConf(per_person) ==
    IF per_person = <<>> THEN 0
    ELSE CHOOSE c \in {per_person[k].breathing_conf : k \in DOMAIN per_person} :
            \A k \in DOMAIN per_person : per_person[k].breathing_conf <= c

\* the call raises ValueError at its first subject with a chest region when
\* the capacity is not positive: deque(maxlen=buffer_size) refuses a negative
\* maxlen, and a deque of maxlen 0 stays empty, passes the length test
\* (0 < 0 // 2 is false) and np.fft.rfft refuses the empty signal
AnalyseRaises(subjects, size) == size <= 0 /\ Sampled(subjects) # {}

\* self._buffers when the call raises: the deque of maxlen 0 was stored
\* before the append, the deque of negative maxlen never existed
RaisedBuffers(bufs, subjects, size) ==
    LET first == CHOOSE i \in Sampled(subjects) :
                    \A j \in Sampled(subjects) : i <= j
    IN  IF size = 0 /\ first \notin DOMAIN bufs
        THEN [i \in DOMAIN bufs \cup {first} |->
                 IF i = first THEN <<>> ELSE bufs[i]]
        ELSE bufs

\* BreathingAnalyzer.analyse(frame, person_bboxes)
Analyse(subjects) ==
    LET bufs == NewBuffers(buffers, subjects, buffer_size)
        per_person == PerPerson(subjects, bufs, buffer_size)
    IN  /\ breath_in' = subjects
        /\ breath_calls' = breath_calls + 1
        /\ IF AnalyseRaises(subjects, buffer_size)
           THEN /\ breath_raised' = TRUE
                /\ buffers' = RaisedBuffers(buffers, subjects, buffer_size)
                /\ UNCHANGED breathing
           ELSE /\ breath_raised' = FALSE
                /\ buffers' = bufs
                /\ breathing' = [breathing_confidence |-> MaxConf(per_person),
                                 per_person |-> per_person]
        /\ UNCHANGED <<fps, buffer_size>>

\* BreathingAnalyzer(fps, buffer_seconds)
BreathInit(f, seconds) ==
    /\ fps = f
    /\ buffer_size = BufferSize(f, seconds)
    /\ buffers = <<>>
    /\ breath_in = <<>>
    /\ breathing = NoBreathing
    /\ breath_calls = 0
    /\ breath_raised = FALSE

\* BreathingAnalyzer()
BreathIdle == BreathInit(DefaultFps, DefaultBufferSeconds)

\* ------------------------------------------------------------------------
\* ResQVisionPipeline
\*
\* A scene is what the collaborators of the pipeline find in one
\* preprocessed 480 x 640 frame: the person boxes of the detector,
\* <<x1, y1, x2, y2, conf>>, the water mask by its pixel counts, the rubble
\* zones and the pixels of their mask, the edge pixels, the gray array, the
\* mean flow magnitude and the mean intensity of a chest region.  Of the
\* returned dict the images, the strategy, the resources and the clock's fps
\* are left out.
\* ------------------------------------------------------------------------
VARIABLES
    mode,               \* self.mode
    frame_count,        \* self.frame_count
    gemini_configured,  \* self.gemini_agent.configured
    last_result,        \* self.last_result, NoResult for {}
    pipe_in             \* the last run_pipeline_frame call: is_photo, the
                        \* gemini_result it computed, and the same of the
                        \* call before with the risk level that one returned

pipeVars == <<mode, frame_count, gemini_configured, last_result, pipe_in>>

\* overriding_risk_score = None
NoScore == -1

\* FloodDetector.detect(frame) for a water mask with water.pixels pixels,
\* water.upper of them above the flood line
FloodLineY(shape) == shape[1] \div 2

FloodRisk(shape, water) ==
    \/ water.pixels * 100 >= 15 * shape[1] * shape[2]
    \/ /\ FloodLineY(shape) * shape[2] > 0
       /\ water.upper * 10 >= FloodLineY(shape) * shape[2]

FloodDetect(shape, water) ==
    {[flood_risk |-> FloodRisk(shape, water), water_coverage |-> c,
      flood_line_y |-> FloodLineY(shape)] :
        c \in Round4Outcomes(Norm(water.pixels, shape[1] * shape[2]))}

\* the dict of the flood path when the mode is not 'flood'
DefaultFlood == [flood_risk |-> FALSE, water_coverage |-> 0, flood_line_y |-> 0]

\* the flood detector run in every mode
FloodResultsAnyMode(m, shape, water) == FloodDetect(shape, water)

\* flood_result of the frame
FloodResults(m, shape, water) ==
    IF m = "flood" THEN FloodDetect(shape, water) ELSE {DefaultFlood}

\* the boxes of the list whose centroid lies in one of the zones, in order
RECURSIVE Trapped(_, _)
Trapped(bboxes, zones) ==
    IF bboxes = <<>> THEN <<>>
    ELSE LET b == Head(bboxes)
             pcx == (b[1] + b[3]) \div 2
             pcy == (b[2] + b[4]) \div 2
             in_zone == \E k \in DOMAIN zones :
                           /\ zones[k][1] <= pcx /\ pcx <= zones[k][3]
                           /\ zones[k][2] <= pcy /\ pcy <= zones[k][4]
         IN  (IF in_zone THEN <<b>> ELSE <<>>) \o Trapped(Tail(bboxes), zones)

\* RubbleDetector.detect(frame, person_bboxes) for the zones that qualify as
\* rubble and the pixels of their mask
RubbleDetect(shape, rubble, bboxes) ==
    {[rubble_zones |-> rubble.zones,
      trapped_survivors |-> Trapped(bboxes, rubble.zones),
      rubble_coverage |-> c] :
        c \in Round4Outcomes(Norm(rubble.pixels, shape[1] * shape[2]))}

\* the dict of the rubble path when the mode is not 'rubble'
DefaultRubble == [rubble_zones |-> <<>>, trapped_survivors |-> <<>>,
                  rubble_coverage |-> 0]

\* rubble_result of the frame
RubbleResults(m, shape, rubble, bboxes) ==
    IF m # "flood" /\ m = "rubble" THEN RubbleDetect(shape, rubble, bboxes)
    ELSE {DefaultRubble}

\* centroids.append(((x1 + x2) // 2, (y1 + y2) // 2)) over the boxes
CentroidsOf(bboxes) ==
    [k \in DOMAIN bboxes |-> <<(bboxes[k][1] + bboxes[k][3]) \div 2,
                               (bboxes[k][2] + bboxes[k][4]) \div 2>>]

\* float(np.mean(confidences)) if confidences else 0.0
RECURSIVE SumConf(_)
SumConf(bboxes) ==
    IF bboxes = <<>> THEN Zero
    ELSE LET c == Head(bboxes)[5]
             s == SumConf(Tail(bboxes))
         IN  Norm(c[1] * s[2] + s[1] * c[2], c[2] * s[2])

MeanConf(bboxes) ==
    IF bboxes = <<>> THEN Zero
    ELSE Norm(SumConf(bboxes)[1], SumConf(bboxes)[2] * Len(bboxes))

\* an agent_input that also says the scene is a heavy crowd
AgentInputHeavy(d, flood, c, m) ==
    [NoData EXCEPT !.survivor_count = d.survivor_count,
                   !.confidence_score = d.confidence_score,
                   !.flood_risk = flood.flood_risk,
                   !.water_coverage = flood.water_coverage,
                   !.crowd_density = c.crowd_density,
                   !.micro_motion_confidence = m.micro_motion_confidence,
                   !.is_heavy_crowd_mode = TRUE]

\* agent_input: the six keys the pipeline fills; assess reads every other
\* key with its default
AgentInput(d, flood, c, m) ==
    [NoData EXCEPT !.survivor_count = d.survivor_count,
                   !.confidence_score = d.confidence_score,
                   !.flood_risk = flood.flood_risk,
                   !.water_coverage = flood.water_coverage,
                   !.crowd_density = c.crowd_density,
                   !.micro_motion_confidence = m.micro_motion_confidence]

\* the text ReportAgent.generate returns
ReportText == "report"

\* report_text of the frame
ReportOf(count) ==
    IF count % 100 = 0 \/ count = 1 THEN ReportText ELSE ""

\* the analysis asked for on every frame
GeminiDueAlways(is_photo, count) == TRUE

\* is_photo or (self.frame_count % 30 == 0)
GeminiDue(is_photo, count) == is_photo \/ count % 30 = 0

\* gemini_result before the call
GeminiPending == [overriding_risk_score |-> NoScore, status |-> "pending"]

\* GeminiAgent._fallback_response
GeminiFallback == [overriding_risk_score |-> NoScore, status |-> "error"]

\* a score the model answers with
GeminiScore == 80

\* GeminiAgent.analyze(frame, telemetry): the fallback when the agent is not
\* configured or the request or the parsing of its answer fails, else the
\* answer's score, the telemetry's risk_score when the answer has none
Analyze(configured, telemetry) ==
    IF ~configured THEN {GeminiFallback}
    ELSE {GeminiFallback}
            \cup {[overriding_risk_score |-> s, status |-> "success"] :
                     s \in {GeminiScore, telemetry.risk_score}}

\* self.last_result = {}
NoResult == <<>>

NoScene == [boxes |-> <<>>, water |-> [pixels |-> 0, upper |-> 0],
            rubble |-> [zones |-> <<>>, pixels |-> 0], edge_pixels |-> 0,
            gray |-> NoGray, avg_mag |-> Zero, chest |-> 0]

NoPrev == [is_photo |-> FALSE, called |-> FALSE, risk_level |-> "NONE"]

NoPipeIn == [is_photo |-> FALSE, scene |-> NoScene, gemini |-> GeminiPending,
             called |-> FALSE, prev |-> NoPrev]

\* the subjects the breathing analyzer finds for the boxes
Subjects(bboxes, chest) ==
    [k \in DOMAIN bboxes |-> [bbox |-> SubSeq(bboxes[k], 1, 4), mean |-> chest]]

\* the frame handed to the crowd monitor
FrameOf(shape, scene) ==
    [given |-> TRUE, h |-> shape[1], w |-> shape[2],
     edge_pixels |-> scene.edge_pixels]

\* ResQVisionPipeline.run_pipeline_frame(raw_frame, is_photo) on a frame
\* that shows the scene.  An exception of the detector ends the call.
RunPipelineFrame(scene, is_photo) ==
    LET count == frame_count + 1
        bboxes == scene.boxes
    IN  /\ frame_count' = count
        /\ Detect(FrameShape, CentroidsOf(bboxes), MeanConf(bboxes), is_photo)
        /\ IF raised'
           THEN UNCHANGED <<riskVars, crowdVars, motionVars, breathVars,
                            last_result, pipe_in>>
           ELSE /\ Estimate(bboxes, <<FrameShape[1], FrameShape[2], 3>>,
                            FrameOf(FrameShape, scene))
                /\ MotionDetect(scene.gray, scene.avg_mag)
                /\ Analyse(Subjects(bboxes, scene.chest))
                /\ \E flood \in FloodResults(mode, FrameShape, scene.water) :
                   \E rubble \in RubbleResults(mode, FrameShape, scene.rubble,
                                               bboxes) :
                      /\ data' = AgentInput(det', flood, crowd', motion')
                      /\ risk' \in AssessResults(data')
                      /\ \E g \in IF GeminiDue(is_photo, count)
                                  THEN Analyze(gemini_configured, risk')
                                  ELSE {GeminiPending} :
                            /\ last_result' =
                                  [detection |-> det', flood |-> flood,
                                   rubble |-> rubble, crowd |-> crowd',
                                   motion |-> motion',
                                   breathing |-> breathing', risk |-> risk',
                                   report |-> ReportOf(count),
                                   frame_count |-> count, mode |-> mode]
                            /\ pipe_in' =
                                  [is_photo |-> is_photo, scene |-> scene,
                                   gemini |-> g,
                                   called |-> GeminiDue(is_photo, count),
                                   prev |-> [is_photo |-> pipe_in.is_photo,
                                             called |-> pipe_in.called,
                                             risk_level |-> risk.risk_level]]
                /\ UNCHANGED calls
        /\ UNCHANGED <<mode, gemini_configured>>

\* the dict of a key the result does not have: result.get(key, {})
EmptyDict == [overriding_risk_score |-> NoScore, status |-> "none"]

\* the dashboard's fast re-bucket of an overriding score
Rebucket(score) ==
    IF score >= 80 THEN "CRITICAL"
    ELSE IF score >= 55 THEN "HIGH"
    ELSE IF score >= 30 THEN "MEDIUM"
    ELSE "LOW"

\* the risk score and level the dashboard shows for a result
Displayed(result) ==
    LET gemini == IF "gemini_analysis" \in DOMAIN result
                  THEN result.gemini_analysis
                  ELSE EmptyDict
    IN  IF gemini.status = "success" /\ gemini.overriding_risk_score # NoScore
        THEN [risk_score |-> gemini.overriding_risk_score,
              risk_level |-> Rebucket(gemini.overriding_risk_score)]
        ELSE [risk_score |-> result.risk.risk_score,
              risk_level |-> result.risk.risk_level]

\* ResQVisionPipeline(mode=m), its Gemini agent configured or not
PipeInit(m, configured) ==
    /\ mode = m
    /\ frame_count = 0
    /\ gemini_configured = configured
    /\ last_result = NoResult
    /\ pipe_in = NoPipeIn

\* ResQVisionPipeline() without an API key
PipeIdle == PipeInit("flood", FALSE)

\* ------------------------------------------------------------------------
\* The components a specification leaves alone
\* ------------------------------------------------------------------------
restVars == <<crowdVars, motionVars, breathVars, pipeVars>>
RestIdle == CrowdIdle /\ MotionIdle /\ BreathIdle /\ PipeIdle

\* ------------------------------------------------------------------------
\* Spec: the confirmation window.  Engines with every window of at most
\* MaxWindow frames and every confirmation_min it can reach take freely
\* chosen frames; the engine with the default window (20 frames, 15 to
\* confirm) takes a burst: frames with BurstCount detections, then frames
\* with none.  Its ema_alpha is 1/2, which keeps the exact smoothed
\* confidence within 32-bit integers over BurstFrames frames.
\* ------------------------------------------------------------------------
BurstAlpha == <<1, 2>>

Init ==
    /\ \/ \E w \in 1..MaxWindow : \E cmin \in 1..w :
             EngineInit(w, cmin, DefaultAlpha)
       \/ EngineInit(DefaultWindow, DefaultMin, BurstAlpha)
    /\ RiskIdle
    /\ RestIdle

DetectFrame ==
    /\ confirmation_window <= MaxWindow
    /\ frame_idx < MaxFrames
    /\ \E raw_count \in 0..MaxCount : \E is_photo \in BOOLEAN :
          Detect(FrameShape, Centroids(raw_count), FullConf(raw_count),
                 is_photo)
    /\ UNCHANGED <<riskVars, restVars>>

DetectBurst ==
    /\ confirmation_window = DefaultWindow
    /\ frame_idx < BurstFrames
    /\ \E raw_count \in {0, BurstCount} :
          /\ raw_count > 0 => \A i \in DOMAIN frames : frames[i].raw_count > 0
          /\ Detect(FrameShape, Centroids(raw_count), FullConf(raw_count),
                    FALSE)
    /\ UNCHANGED <<riskVars, restVars>>

Next == DetectFrame \/ DetectBurst

vars == <<engineVars, riskVars, restVars>>

Spec == Init /\ [][Next]_vars

\* ------------------------------------------------------------------------
\* SpecEma: the confidence smoothing.  Engines with the default window and
\* ema_alpha 0, 0.3 and 1 take frames of every confidence level.
\* ------------------------------------------------------------------------
EmaAlphas == {Zero, DefaultAlpha, One}

InitEma ==
    /\ \E cmin \in {1, DefaultMin} : \E alpha \in EmaAlphas :
          EngineInit(DefaultWindow, cmin, alpha)
    /\ RiskIdle
    /\ RestIdle

DetectConf ==
    /\ frame_idx < MaxFrames
    /\ \E raw_count \in 0..1 : \E avg_conf \in AvgConfs(raw_count) :
          \E is_photo \in BOOLEAN :
              Detect(FrameShape, Centroids(raw_count), avg_conf, is_photo)
    /\ UNCHANGED <<riskVars, restVars>>

NextEma == DetectConf

SpecEma == InitEma /\ [][NextEma]_vars

\* ------------------------------------------------------------------------
\* SpecRisk: RiskAgent.assess applied to every input of RiskInputs.
\* ------------------------------------------------------------------------
MaxSurvivors == 11

Confidences    == {0, 3000, Scale}
WaterCoverages == {0, 2999, 3000, 3001, 3574, 5000, Scale}
FireCoverages  == {0, 1000, 3574, 4000, Scale}
Densities      == {0, 4000, 4001, 5500, Scale}
Motions        == {0, 2500, Scale}

RiskInputs ==
    [survivor_count : 0..MaxSurvivors,
     confidence_score : Confidences,
     flood_risk : BOOLEAN,
     water_coverage : WaterCoverages,
     fire_risk : BOOLEAN,
     fire_coverage : FireCoverages,
     crowd_density : Densities,
     micro_motion_confidence : Motions,
     is_heavy_crowd_mode : BOOLEAN]

InitRisk ==
    /\ EngineInit(DefaultWindow, DefaultMin, DefaultAlpha)
    /\ data \in RiskInputs
    /\ risk = NoRisk
    /\ calls = <<>>
    /\ RestIdle

AssessCall == Assess /\ UNCHANGED <<engineVars, calls, restVars>>

NextRisk == AssessCall

SpecRisk == InitRisk /\ [][NextRisk]_vars

\* ------------------------------------------------------------------------
\* SpecPure: one RiskAgent assesses up to MaxCalls dicts in a row.  On an
\* exact tie the floating-point rounding falls one way or the other, the
\* same way every time; the dicts of PureInputs are away from the ties, so
\* that AssessResults is the one dict assess returns.
\* ------------------------------------------------------------------------
MaxCalls == 3

PureInputs ==
    {d \in [survivor_count : {0, 5},
            confidence_score : {3000},
            flood_risk : BOOLEAN,
            water_coverage : {5000},
            fire_risk : {FALSE},
            fire_coverage : {0},
            crowd_density : {0, 5500},
            micro_motion_confidence : {2500},
            is_heavy_crowd_mode : BOOLEAN] :
        Cardinality(AssessResults(d)) = 1}

InitPure ==
    /\ EngineInit(DefaultWindow, DefaultMin, DefaultAlpha)
    /\ calls = <<>>
    /\ risk = NoRisk
    /\ data \in PureInputs
    /\ RestIdle

\* the caller builds the dict of the next call
Hand ==
    /\ risk # NoRisk
    /\ Len(calls) < MaxCalls
    /\ data' \in PureInputs
    /\ risk' = NoRisk
    /\ UNCHANGED <<engineVars, calls, restVars>>

AssessLogged ==
    /\ Assess
    /\ calls' = Append(calls, [input |-> data, after |-> data',
                               result |-> risk'])
    /\ UNCHANGED <<engineVars, restVars>>

NextPure == Hand \/ AssessLogged

SpecPure == InitPure /\ [][NextPure]_vars

\* ------------------------------------------------------------------------
\* SpecCrowd: CrowdMonitor.estimate.  A monitor built with the default or
\* another frame area and crowd size takes calls with up to MaxBoxes boxes,
\* with and without a frame shape, with and without a frame.
\* ------------------------------------------------------------------------
MaxBoxes == 2

\* boxes (x1, y1, x2, y2): the whole 640 x 480 frame, a quarter and a tenth
\* of it, a small box and the same box with its corners swapped
BoxPool == {<<0, 0, 640, 480>>, <<0, 0, 320, 240>>, <<0, 0, 192, 160>>,
            <<10, 10, 30, 50>>, <<30, 50, 10, 10>>}

\* the lists of boxes handed over: up to MaxBoxes copies of one box (the
\* detector reports a box once per overlapping detection), and two pairs of
\* different boxes
BoxLists ==
    {[i \in 1..n |-> b] : n \in 0..MaxBoxes, b \in BoxPool}
        \cup {<< <<0, 0, 320, 240>>, <<0, 0, 640, 480>> >>,
              << <<10, 10, 30, 50>>, <<0, 0, 192, 160>> >>}

\* frame.shape of the pipeline's frame, of a smaller and of an empty array
Shapes == {NoShape, <<480, 640, 3>>, <<100, 100, 3>>, <<0, 640, 3>>}

\* edge pixels of a 480 x 640 frame: none, 4 %, just above 4 %, 9 %, all
EdgePixels == {0, 12288, 12289, 27648, 307200}

Frames ==
    {NoFrame} \cup {[given |-> TRUE, h |-> 480, w |-> 640, edge_pixels |-> e] :
                       e \in EdgePixels}

InitCrowd ==
    /\ EngineInit(DefaultWindow, DefaultMin, DefaultAlpha)
    /\ RiskIdle
    /\ frame_area \in {0, DefaultFrameArea}
    /\ max_expected_persons \in {1, DefaultMaxPersons}
    /\ crowd_in = NoCrowdIn
    /\ crowd = NoCrowd
    /\ MotionIdle
    /\ BreathIdle
    /\ PipeIdle

EstimateCall ==
    /\ \E bboxes \in BoxLists : \E frame_shape \in Shapes :
          \E frame \in Frames : Estimate(bboxes, frame_shape, frame)
    /\ UNCHANGED <<engineVars, riskVars, motionVars, breathVars, pipeVars>>

NextCrowd == EstimateCall

SpecCrowd == InitCrowd /\ [][NextCrowd]_vars

\* ------------------------------------------------------------------------
\* SpecMotion: MicroMotionDetector.detect.  A detector with the default
\* thresholds, or one that asks for a single changed pixel, takes frames
\* whose regions are dark or bright; the one-pixel region also has the
\* intensity the threshold does not pass.
\* ------------------------------------------------------------------------
Grays ==
    {g \in [1..Len(RegionSize) -> {0, 12, 13}] :
        \A k \in 2..Len(RegionSize) : g[k] # 12}

\* mean flow magnitudes: none, 1.0 (a flow score of 0.5) and 3.0 (capped)
AvgMags == {Zero, One, <<3, 1>>}

InitMotion ==
    /\ EngineInit(DefaultWindow, DefaultMin, DefaultAlpha)
    /\ RiskIdle
    /\ CrowdIdle
    /\ diff_threshold = DefaultDiffThreshold
    /\ min_motion_pixels \in {1, DefaultMinMotionPixels}
    /\ prev_gray = NoGray
    /\ motion_in = NoMotionIn
    /\ motion = NoMotion
    /\ BreathIdle
    /\ PipeIdle

MotionCall ==
    /\ \E gray \in Grays : \E avg_mag \in AvgMags : MotionDetect(gray, avg_mag)
    /\ UNCHANGED <<engineVars, riskVars, crowdVars, breathVars, pipeVars>>

NextMotion == MotionCall

SpecMotion == InitMotion /\ [][NextMotion]_vars

\* ------------------------------------------------------------------------
\* SpecBreath: BreathingAnalyzer.analyse.  Analyzers at 1 Hz with buffers
\* of 2.5, 4 and 5 seconds (capacities 2, 4 and 5) take up to MaxAnalyses
\* frames with up to two subjects.
\* ------------------------------------------------------------------------
MaxAnalyses == 4

BufferSeconds == {<<5, 2>>, <<4, 1>>, <<5, 1>>}

\* a standing subject whose chest has a mean intensity of 100 or 101, and a
\* box one row high, which has no chest region
SubjectPool ==
    {[bbox |-> <<10, 10, 30, 50>>, mean |-> 100],
     [bbox |-> <<10, 10, 30, 50>>, mean |-> 101],
     [bbox |-> <<10, 10, 30, 11>>, mean |-> 0]}

SubjectLists == UNION {[1..n -> SubjectPool] : n \in 0..2}

InitBreath ==
    /\ EngineInit(DefaultWindow, DefaultMin, DefaultAlpha)
    /\ RiskIdle
    /\ CrowdIdle
    /\ MotionIdle
    /\ \E seconds \in BufferSeconds : BreathInit(1, seconds)
    /\ PipeIdle

AnalyseCall ==
    /\ breath_calls < MaxAnalyses
    /\ \E subjects \in SubjectLists : Analyse(subjects)
    /\ UNCHANGED <<engineVars, riskVars, crowdVars, motionVars, pipeVars>>

NextBreath == AnalyseCall

SpecBreath == InitBreath /\ [][NextBreath]_vars

\* ------------------------------------------------------------------------
\* SpecHeat: DetectionEngine._update_heatmap.  The heat map of an engine
\* takes up to MaxHeatSteps steps: an update with one of two frame shapes
\* and up to two centroids, or a stretch of QuietFrames frames of the same
\* shape without a detection.
\* ------------------------------------------------------------------------
MaxHeatSteps == 4
QuietFrames == 3295

HeatShapes == {FrameShape, <<240, 320>>}

\* no centroid, one that stamps <<0, 10>>, two whose disks both cover
\* <<95, 10>>, one that stamps <<600, 400>>
HeatCentroids ==
    {<<>>, << <<30, 10>> >>, << <<60, 10>>, <<90, 10>> >>, << <<600, 400>> >>}

InitHeat ==
    /\ EngineInit(DefaultWindow, DefaultMin, DefaultAlpha)
    /\ RiskIdle
    /\ RestIdle

HeatUpdate ==
    /\ heat_in.step < MaxHeatSteps
    /\ \E shape \in HeatShapes : \E centroids \in HeatCentroids :
          /\ heatmap' = UpdateHeatmap(heatmap, shape, centroids)
          /\ heat_in' = [before |-> heatmap, shape |-> shape,
                         centroids |-> centroids, updates |-> 1,
                         step |-> heat_in.step + 1]
    /\ UNCHANGED <<confirmation_window, confirmation_min, ema_alpha, history,
                   smoothed_confidence, confirmed_count, frame_idx, det,
                   raised, frames, riskVars, restVars>>

HeatQuiet ==
    /\ heat_in.step < MaxHeatSteps
    /\ heatmap.alloc
    /\ heatmap' = Quiet(heatmap, QuietFrames)
    /\ heat_in' = [before |-> heatmap, shape |-> heatmap.shape,
                   centroids |-> <<>>, updates |-> QuietFrames,
                   step |-> heat_in.step + 1]
    /\ UNCHANGED <<confirmation_window, confirmation_min, ema_alpha, history,
                   smoothed_confidence, confirmed_count, frame_idx, det,
                   raised, frames, riskVars, restVars>>

NextHeat == HeatUpdate \/ HeatQuiet

SpecHeat == InitHeat /\ [][NextHeat]_vars

\* ------------------------------------------------------------------------
\* SpecConfig: construction.  Every engine and analyzer that the
\* constructors return for the arguments below takes up to MaxConfigCalls
\* frames.  DetectionEngine.__init__ builds deque(maxlen=confirmation_window),
\* which raises ValueError for a negative maxlen and accepts 0;
\* BreathingAnalyzer.__init__ only computes int(fps * buffer_seconds).
\* ------------------------------------------------------------------------
MaxConfigCalls == 2

ConfigWindows == {-1, 0, 1, 2}
ConfigMins == {0, 1}
ConfigSeconds == {<<-1, 1>>, <<0, 1>>, <<1, 1>>, <<5, 1>>}

\* DetectionEngine(confirmation_window=w, confirmation_min=cmin) returns
EngineConstructs(w, cmin) == w >= 0

\* BreathingAnalyzer(fps=f, buffer_seconds=seconds) returns
AnalyzerConstructs(f, seconds) == TRUE

InitConfig ==
    /\ \E w \in ConfigWindows : \E cmin \in ConfigMins :
          /\ EngineConstructs(w, cmin)
          /\ EngineInit(w, cmin, DefaultAlpha)
    /\ RiskIdle
    /\ CrowdIdle
    /\ MotionIdle
    /\ \E seconds \in ConfigSeconds :
          /\ AnalyzerConstructs(1, seconds)
          /\ BreathInit(1, seconds)
    /\ PipeIdle

DetectConfig ==
    /\ frame_idx < MaxConfigCalls
    /\ \E raw_count \in 0..1 : \E is_photo \in BOOLEAN :
          Detect(FrameShape, Centroids(raw_count), FullConf(raw_count),
                 is_photo)
    /\ UNCHANGED <<riskVars, restVars>>

AnalyseConfig ==
    /\ breath_calls < MaxConfigCalls
    /\ \E subjects \in SubjectLists : Analyse(subjects)
    /\ UNCHANGED <<engineVars, riskVars, crowdVars, motionVars, pipeVars>>

NextConfig == DetectConfig \/ AnalyseConfig

SpecConfig == InitConfig /\ [][NextConfig]_vars

\* ------------------------------------------------------------------------
\* SpecPipe: the pipeline.  A pipeline in each mode, with and without a
\* configured Gemini agent, takes RichFrames frames of any scene, photo or
\* streaming, or up to MaxPipeFrames streaming frames of the scenes without
\* persons.  (The exact smoothed confidence outgrows 32-bit integers a few
\* frames after the first detection.)
\* ------------------------------------------------------------------------
RichFrames == 2
MaxPipeFrames == 101

\* 'flood' and 'rubble' are the modes of the command line and the
\* dashboard; the constructor takes any string
Modes == {"flood", "rubble", "fire"}

\* gray arrays: dark, and brighter by 13 everywhere
DarkGray == [k \in 1..Len(RegionSize) |-> 0]
LightGray == [k \in 1..Len(RegionSize) |-> 13]

\* the k-th person: a 20 x 20 box centred at <<30 * k, 10>>, confidence 1.0
PersonBox(k) == <<30 * k - 10, 0, 30 * k + 10, 20, One>>

\* nothing in the frame
StillScene ==
    [boxes |-> <<>>, water |-> [pixels |-> 0, upper |-> 0],
     rubble |-> [zones |-> <<>>, pixels |-> 0], edge_pixels |-> 0,
     gray |-> DarkGray, avg_mag |-> Zero, chest |-> 100]

\* water over half of the frame, a fifth of the upper half; rubble over a
\* fifth of the frame; edges everywhere; everything moves
FloodedScene ==
    [boxes |-> <<>>, water |-> [pixels |-> 153600, upper |-> 30720],
     rubble |-> [zones |-> << <<0, 0, 640, 96>> >>, pixels |-> 61440],
     edge_pixels |-> 307200,
     gray |-> LightGray, avg_mag |-> <<3, 1>>, chest |-> 100]

\* ten persons, three of them in a rubble zone, on a flooded street
CrowdScene ==
    [boxes |-> [k \in 1..10 |-> PersonBox(k)],
     water |-> [pixels |-> 153600, upper |-> 30720],
     rubble |-> [zones |-> << <<0, 0, 100, 100>> >>, pixels |-> 10000],
     edge_pixels |-> 0,
     gray |-> LightGray, avg_mag |-> One, chest |-> 100]

QuietScenes == {StillScene, FloodedScene}
Scenes == QuietScenes \cup {CrowdScene}

InitPipe ==
    /\ EngineInit(DefaultWindow, DefaultMin, DefaultAlpha)
    /\ RiskIdle
    /\ CrowdIdle
    /\ MotionIdle
    /\ BreathIdle
    /\ \E m \in Modes : \E configured \in BOOLEAN : PipeInit(m, configured)

\* a frame of any scene
PipeFrame ==
    /\ frame_count < RichFrames
    /\ \E scene \in Scenes : \E is_photo \in BOOLEAN :
          RunPipelineFrame(scene, is_photo)

\* a streaming frame of a scene without persons, after such frames only
PipeQuiet ==
    /\ frame_count < MaxPipeFrames
    /\ \A i \in DOMAIN frames : frames[i].raw_count = 0 /\ ~frames[i].is_photo
    /\ \E scene \in QuietScenes : RunPipelineFrame(scene, FALSE)

NextPipe == PipeFrame \/ PipeQuiet

SpecPipe == InitPipe /\ [][NextPipe]_vars

\* ------------------------------------------------------------------------
\* Properties of DetectionEngine.detect
\* ------------------------------------------------------------------------
Called == frame_idx > 0
LastFrame == frames[Len(frames)]
Returned == ~raised /\ det.frame_index = frame_idx
AllZero == \A i \in DOMAIN frames : frames[i].raw_count = 0

\* the frames of the window: the last confirmation_window calls, and those
\* of them with a detection
WindowIdx == {i \in DOMAIN frames : i > Len(frames) - confirmation_window}
HitIdx == {i \in WindowIdx : frames[i].raw_count > 0}

\* the k-th smallest count among the frames of the window with a detection
KthHit(k) ==
    CHOOSE v \in {frames[i].raw_count : i \in HitIdx} :
        /\ Cardinality({i \in HitIdx : frames[i].raw_count < v}) < k
        /\ Cardinality({i \in HitIdx : frames[i].raw_count <= v}) >= k

\* twice the median of the counts of the frames of the window with a detection
MedianTwice ==
    LET n == Cardinality(HitIdx)
    IN  KthHit((n + 1) \div 2) + KthHit(n \div 2 + 1)

C2_ConfirmedIff ==
    (Called /\ ~LastFrame.is_photo) =>
        /\ Returned
        /\ det.confirmed <=> Cardinality(HitIdx) >= confirmation_min

\* the default window after 15 frames of 5 detections and 5 frames of none
C2_Witness ==
    /\ confirmation_window = DefaultWindow
    /\ confirmation_min = DefaultMin
    /\ frame_idx = DefaultWindow
    /\ \A i \in DOMAIN frames :
          frames[i].raw_count = IF i <= DefaultMin THEN BurstCount ELSE 0
    /\ det.confirmed = TRUE
    /\ det.survivor_count = BurstCount

\* C3, as stated: a confirmed streaming call reports the median of the
\* non-zero counts of the window, an unconfirmed one reports 0.
C3_Original ==
    (Called /\ ~raised /\ ~LastFrame.is_photo) =>
        IF det.confirmed THEN 2 * det.survivor_count = MedianTwice
        ELSE det.survivor_count = 0

\* C3, amended: a confirmed streaming call reports the median of the non-zero
\* counts of the window truncated to an integer (the median itself when the
\* number of non-zero entries is odd), an unconfirmed one reports 0.
C3_MedianTruncated ==
    (Called /\ ~raised /\ ~LastFrame.is_photo) =>
        IF det.confirmed THEN det.survivor_count = MedianTwice \div 2
        ELSE det.survivor_count = 0

C3_Witness ==
    /\ Called /\ ~raised /\ ~LastFrame.is_photo
    /\ det.confirmed
    /\ Cardinality(HitIdx) % 2 = 0
    /\ MedianTwice % 2 = 1
    /\ det.survivor_count = MedianTwice \div 2

\* C4: the window holds at most confirmation_window entries and equals the
\* last min(n, confirmation_window) pushed frames, in order.
C4_Window ==
    LET n == Len(frames)
        m == IF n < confirmation_window THEN n ELSE confirmation_window
    IN  /\ Len(history) <= confirmation_window
        /\ Len(history) = m
        /\ \A k \in 1..m :
              history[k] = <<frames[n - m + k].raw_count,
                             frames[n - m + k].avg_conf>>

C4_Witness ==
    /\ Len(frames) >= confirmation_window + 2
    /\ Len(history) = confirmation_window
    /\ frames[1].raw_count # frames[Len(frames) - confirmation_window + 1].raw_count
    /\ history[1][1] = frames[Len(frames) - confirmation_window + 1].raw_count

\* C5: a bypass (is_photo) call returns confirmed = true and the frame's own
\* raw_count, whatever the window holds.
C5_Bypass ==
    (Called /\ LastFrame.is_photo) =>
        /\ Returned
        /\ det.confirmed = TRUE
        /\ det.survivor_count = LastFrame.raw_count

\* a photo with detections on a window that would not confirm
C5_Witness ==
    /\ Called /\ LastFrame.is_photo
    /\ LastFrame.raw_count > 0
    /\ Cardinality(HitIdx) < confirmation_min
    /\ \E i \in HitIdx : frames[i].raw_count # LastFrame.raw_count
    /\ det.confirmed = TRUE
    /\ det.survivor_count = LastFrame.raw_count

\* ------------------------------------------------------------------------
\* Properties of the confidence smoothing
\* ------------------------------------------------------------------------
RECURSIVE Pow(_, _)
Pow(b, e) == IF e = 0 THEN 1 ELSE b * Pow(b, e - 1)

\* the confidences are multiples of 1 / ConfUnit
ConfUnit == ConfidenceThreshold[2]
InUnits(f) == (f[1] * ConfUnit) \div f[2]

\* sum over the calls i = 1..n of alpha * (1 - alpha)^(n - i) * avg_conf_i,
\* over the denominator alpha_den^n * ConfUnit
EmaClosedForm ==
    LET n == Len(frames)
        term(i) == ema_alpha[1] * Pow(ema_alpha[2] - ema_alpha[1], n - i)
                     * Pow(ema_alpha[2], i - 1) * InUnits(frames[i].avg_conf)
        sum[i \in 0..n] == IF i = 0 THEN 0 ELSE sum[i - 1] + term(i)
    IN  Norm(sum[n], Pow(ema_alpha[2], n) * ConfUnit)

\* C6: the smoothed confidence is 0 at construction and every call, confirmed,
\* unconfirmed or bypass, applies smoothed = alpha * avg_conf + (1 - alpha) *
\* smoothed exactly once: 0.3 after one call with confidence 1.0, 0.51 after
\* two (alpha = 0.3).
C6_Ema ==
    /\ ~raised
    /\ smoothed_confidence = EmaClosedForm
    /\ frame_idx = 0 => smoothed_confidence = Zero
    /\ (ema_alpha = DefaultAlpha /\ Len(frames) = 1 /\ frames[1].avg_conf = One)
          => smoothed_confidence = <<3, 10>>
    /\ (ema_alpha = DefaultAlpha /\ Len(frames) = 2 /\ frames[1].avg_conf = One
          /\ frames[2].avg_conf = One)
          => smoothed_confidence = <<51, 100>>

\* confidence 1.0 twice, on a bypass call and on an unconfirmed streaming call
C6_Witness ==
    /\ ema_alpha = DefaultAlpha
    /\ Len(frames) = 2
    /\ frames[1].avg_conf = One /\ frames[1].is_photo
    /\ frames[2].avg_conf = One /\ ~frames[2].is_photo
    /\ det.confirmed = FALSE
    /\ smoothed_confidence = <<51, 100>>

\* C7: with every avg_confidence in [0, 1] and alpha in [0, 1] the smoothed
\* confidence is in [0, 1] after every call.
C7_Unit ==
    /\ smoothed_confidence[2] > 0
    /\ 0 <= smoothed_confidence[1]
    /\ smoothed_confidence[1] <= smoothed_confidence[2]

\* alpha = 0.3 and the confidence held at 1.0: the nearest the bound is
\* approached within MaxFrames calls
C7_Witness ==
    /\ ema_alpha = DefaultAlpha
    /\ frame_idx >= 3
    /\ \A i \in DOMAIN frames : frames[i].avg_conf = One
    /\ 2 * smoothed_confidence[1] > smoothed_confidence[2]
    /\ smoothed_confidence[1] < smoothed_confidence[2]

\* ------------------------------------------------------------------------
\* Properties of RiskAgent.assess
\* ------------------------------------------------------------------------
Assessed == risk # NoRisk

\* the sum of the base score and the three override additions, before the clamp
Unclamped(base) == base + ExtraFlood(data) + ExtraFire(data) + ExtraCrowd(data)

\* C8: the risk_score assess returns is an integer in [0, 100], also when the
\* flood, fire and crowd-crush additions all fire on a maximal base score.
C8_ScoreRange == Assessed => risk.risk_score \in 0..100

\* base 100 and the additions 50, 60 and 60
C8_Witness ==
    /\ Assessed
    /\ BaseScores(data) = {100}
    /\ ExtraFlood(data) = 50 /\ ExtraFire(data) = 60 /\ ExtraCrowd(data) = 60
    /\ risk.risk_score = 100

\* C9: the risk level is decided by the final, clamped score alone: CRITICAL
\* from 80, HIGH from 55 to 79, MEDIUM from 30 to 54, LOW below 30.
C9_Level ==
    Assessed =>
        /\ risk.risk_level = "CRITICAL" <=> risk.risk_score >= 80
        /\ risk.risk_level = "HIGH" <=>
              (55 <= risk.risk_score /\ risk.risk_score < 80)
        /\ risk.risk_level = "MEDIUM" <=>
              (30 <= risk.risk_score /\ risk.risk_score < 55)
        /\ risk.risk_level = "LOW" <=> risk.risk_score < 30

\* a base score below 30 lifted to exactly 80 by the overrides
C9_Witness ==
    /\ Assessed
    /\ \A b \in BaseScores(data) : b < 30
    /\ risk.risk_score = 80
    /\ risk.risk_level = "CRITICAL"

\* the flood addition of the claim, over the denominator Scale
FloodAddExact ==
    IF data.flood_risk /\ data.water_coverage * 100 > 30 * Scale
    THEN Min(data.water_coverage * 100, 50 * Scale)
    ELSE 0

NoOtherOverride == ~data.fire_risk /\ ~data.is_heavy_crowd_mode

OnlyFlood(coverage) ==
    data = [NoData EXCEPT !.flood_risk = TRUE, !.water_coverage = coverage]

\* C10, as stated: the flood override adds min(coverage * 100, 50) to the base
\* score exactly when the flood flag is set and the coverage exceeds 0.30.
C10_Original ==
    (Assessed /\ NoOtherOverride) =>
        \E b \in BaseScores(data) :
            risk.risk_score * Scale = Min(100 * Scale, b * Scale + FloodAddExact)

\* C10, amended: the flood override adds min(coverage * 100, 50) truncated to
\* an integer exactly when the flood flag is set and the coverage exceeds
\* 0.30, and nothing otherwise; all factors zero give 0 / LOW, flood at
\* coverage 0.5 alone gives base 15 + 50.
C10_FloodOverride ==
    /\ (Assessed /\ NoOtherOverride) =>
          \E b \in BaseScores(data) :
              risk.risk_score = Min(100, b + FloodAddExact \div Scale)
    /\ (Assessed /\ data = NoData) =>
          (risk.risk_score = 0 /\ risk.risk_level = "LOW")
    /\ (Assessed /\ OnlyFlood(5000)) => risk.risk_score = 65

\* flood at coverage 0.3574 alone: base 15, addition 35
C10_Witness ==
    /\ Assessed
    /\ OnlyFlood(3574)
    /\ risk.risk_score = 50

\* the fire and crowd-crush additions of the claim, over the denominator Scale
FireAddExact ==
    IF data.fire_risk THEN Min(data.fire_coverage * 150, 60 * Scale) ELSE 0

CrowdAddExact ==
    IF data.is_heavy_crowd_mode /\ data.crowd_density * 10 > 4 * Scale
    THEN Min(data.crowd_density * 100, 60 * Scale)
    ELSE 0

\* C11, as stated: the final score is min(100, base + flood_add + fire_add +
\* crowd_add) with fire_add = min(fire_coverage * 150, 60) when fire is
\* flagged and crowd_add = min(density * 100, 60) when heavy-crowd mode is
\* active and the density exceeds 0.4.
C11_Original ==
    Assessed =>
        \E b \in BaseScores(data) :
            risk.risk_score * Scale =
                Min(100 * Scale,
                    (b + ExtraFlood(data)) * Scale + FireAddExact
                        + CrowdAddExact)

\* C11, amended: the final score is min(100, base + flood_add + fire_add +
\* crowd_add), where each addition is truncated to an integer: fire_add is
\* the integer part of min(fire_coverage * 150, 60) when fire is flagged,
\* crowd_add the integer part of min(density * 100, 60) when heavy-crowd
\* mode is active and the density exceeds 0.4; each addition has its own cap
\* and the additions are summed before the clamp.
C11_Additive ==
    Assessed =>
        /\ \E b \in BaseScores(data) :
              risk.risk_score =
                  Min(100, b + FloodAddExact \div Scale
                             + FireAddExact \div Scale
                             + CrowdAddExact \div Scale)
        /\ ExtraFlood(data) <= 50
        /\ ExtraFire(data) <= 60
        /\ ExtraCrowd(data) <= 60

\* fire at coverage 0.1 and a heavy crowd of density 0.4001, nothing else:
\* base 32, additions 15 and 40, below the clamp
C11_Witness ==
    /\ Assessed
    /\ data = [NoData EXCEPT !.fire_risk = TRUE, !.fire_coverage = 1000,
                             !.is_heavy_crowd_mode = TRUE,
                             !.crowd_density = 4001]
    /\ risk.risk_score = 87

Estimated == crowd # NoCrowd

\* the primary density of the last call: 0.6 * count_ratio + 0.4 * area_ratio
LastPrimary ==
    PrimaryDensity(CountRatio(Len(crowd_in.bboxes), max_expected_persons),
                   AreaRatio(Occupied(crowd_in.bboxes), frame_area))

LastEdge == EdgeDensity(crowd_in.frame)

Overridden ==
    /\ crowd_in.frame.given
    /\ Less(LastPrimary, <<1, 10>>)
    /\ Less(<<4, 10>>, LastEdge)

\* C13: the density estimate returns (rounded to four decimals) is
\* edge_density * 0.8 exactly when a frame is supplied, the primary density
\* 0.6 * count_ratio + 0.4 * area_ratio is below 0.1 and the edge density
\* exceeds 0.4, and the primary density in every other case; no detections
\* with an edge density of 0.9 give 0.72.
C13_Fallback ==
    Estimated =>
        /\ Overridden =>
              crowd.crowd_density
                  \in Round4Outcomes(<<LastEdge[1] * 8, LastEdge[2] * 10>>)
        /\ ~Overridden => crowd.crowd_density \in Round4Outcomes(LastPrimary)
        /\ (crowd_in.bboxes = <<>> /\ crowd_in.frame.given
                /\ crowd_in.frame.edge_pixels = 27648)
              => crowd.crowd_density = 7200

\* no detections in a frame with an edge density of 0.9
C13_Witness ==
    /\ Estimated
    /\ crowd_in.bboxes = <<>>
    /\ crowd_in.frame.given
    /\ LastEdge = <<9, 10>>
    /\ crowd.crowd_density = 7200

\* C14: estimate returns a density and an occupied_area_ratio in [0, 1]; the
\* area ratio is the sum of the box areas, overlaps counted again, over the
\* frame area, capped at 1, and the count ratio in the density is
\* person_count / max_expected_persons capped at 1.
C14_Range ==
    Estimated =>
        LET occupied == Occupied(crowd_in.bboxes)
            count == Len(crowd_in.bboxes)
            arN == IF frame_area > 0 THEN Min(occupied, frame_area) ELSE 0
            arD == IF frame_area > 0 THEN frame_area ELSE 1
            crN == Min(count, max_expected_persons)
            crD == max_expected_persons
        IN  /\ crowd.crowd_density \in 0..Scale
            /\ crowd.occupied_area_ratio \in 0..Scale
            /\ crowd.person_count = count
            /\ crowd.occupied_area_ratio \in Round4Outcomes(<<arN, arD>>)
            /\ ~Overridden =>
                  crowd.crowd_density
                      \in Round4Outcomes(<<6 * crN * arD + 4 * arN * crD,
                                           10 * crD * arD>>)

\* two boxes that each cover the whole frame, in a monitor that expects one
\* person: both ratios are capped
C14_Witness ==
    /\ Estimated
    /\ max_expected_persons = 1
    /\ crowd_in.bboxes = << <<0, 0, 640, 480>>, <<0, 0, 640, 480>> >>
    /\ frame_area = DefaultFrameArea
    /\ crowd.occupied_area_ratio = Scale
    /\ crowd.crowd_density = Scale

\* ------------------------------------------------------------------------
\* Properties of MicroMotionDetector.detect
\* ------------------------------------------------------------------------
MotionCalled == motion # NoMotion
FirstMotionCall == MotionCalled /\ motion_in.prev = NoGray

\* C15: the first detect call on a fresh detector returns confidence 0,
\* diff_score 0 and flow_score 0 whatever the frame and its flow, and the
\* frame is the baseline of the next call.
C15_FirstCall ==
    FirstMotionCall =>
        /\ motion.micro_motion_confidence = 0
        /\ motion.diff_score = 0
        /\ motion.flow_score = 0
        /\ prev_gray = motion_in.gray

\* a first call on an all-bright frame with a flow of magnitude 3.0
C15_Witness ==
    /\ FirstMotionCall
    /\ motion_in.gray = [k \in 1..Len(RegionSize) |-> 13]
    /\ motion_in.avg_mag = <<3, 1>>
    /\ motion.micro_motion_confidence = 0
    /\ prev_gray = motion_in.gray

\* the pixels of the last call's frame that differ from its baseline by more
\* than the threshold
ChangedPixels ==
    LET changed == {k \in 1..Len(RegionSize) :
                       Abs(motion_in.prev[k] - motion_in.gray[k])
                           > diff_threshold}
    IN  (IF 1 \in changed THEN RegionSize[1] ELSE 0)
          + (IF 2 \in changed THEN RegionSize[2] ELSE 0)
          + (IF 3 \in changed THEN RegionSize[3] ELSE 0)
          + (IF 4 \in changed THEN RegionSize[4] ELSE 0)

\* C16: on every call after the first, fewer changed pixels than
\* min_motion_pixels give confidence 0 whatever the flow score; otherwise the
\* confidence (rounded to four decimals) is 0.5 * diff_score +
\* 0.5 * flow_score, with diff_score = min(changed / (1 % of the pixels), 1)
\* and flow_score = min(avg_mag / 2, 1), and lies in [0, 1].
C16_Floor ==
    (MotionCalled /\ ~FirstMotionCall) =>
        LET dN == Min(ChangedPixels * 100, 307200)
            fN == Min(motion_in.avg_mag[1], 2 * motion_in.avg_mag[2])
            fD == 2 * motion_in.avg_mag[2]
        IN  /\ ChangedPixels < min_motion_pixels =>
                  motion.micro_motion_confidence = 0
            /\ ChangedPixels >= min_motion_pixels =>
                  motion.micro_motion_confidence
                      \in Round4Outcomes(<<dN * fD + fN * 307200,
                                           2 * 307200 * fD>>)
            /\ motion.micro_motion_confidence \in 0..Scale

\* 29 changed pixels under a capped flow score: confidence 0 by the floor
C16_Witness ==
    /\ MotionCalled /\ ~FirstMotionCall
    /\ min_motion_pixels = DefaultMinMotionPixels
    /\ ChangedPixels = 29
    /\ motion.flow_score = Scale
    /\ motion.micro_motion_confidence = 0

\* ------------------------------------------------------------------------
\* Properties of BreathingAnalyzer.analyse
\* ------------------------------------------------------------------------
BreathCalled == breath_calls > 0

\* the subjects of the last call that have a chest region, by position
SampledNow ==
    {k \in DOMAIN breath_in : ~RoiEmpty(breath_in[k].bbox, FrameShape)}

\* C17, as stated: for every subject index and every buffer capacity, even
\* or odd, analyse reports breathing confidence 0 for a subject whose buffer
\* holds fewer samples than half the capacity.
C17_Original ==
    BreathCalled =>
        \A k \in SampledNow :
            2 * Len(buffers[k - 1]) < buffer_size =>
                breathing.per_person[k].breathing_conf = 0

\* the overall confidence is the largest of the per-subject confidences of
\* the dict b, and 0 when there is none
OverallIsMax(b) ==
    /\ \A k \in DOMAIN b.per_person :
          b.per_person[k].breathing_conf <= b.breathing_confidence
    /\ IF b.per_person = <<>> THEN b.breathing_confidence = 0
       ELSE \E k \in DOMAIN b.per_person :
               b.per_person[k].breathing_conf = b.breathing_confidence

\* C18: analyse called with an empty subject list returns an overall
\* confidence of 0 with an empty per-subject list and leaves every buffer as
\* it was; every call returns one entry per subject, and its overall
\* confidence is the largest of the per-subject confidences of that call.
C18_EmptyList ==
    [][breath_calls' # breath_calls =>
          /\ breath_in' = <<>> =>
                /\ breathing'.breathing_confidence = 0
                /\ breathing'.per_person = <<>>
                /\ buffers' = buffers
          /\ Len(breathing'.per_person) = Len(breath_in')
          /\ OverallIsMax(breathing')]_vars

\* an empty subject list after a call that filled two buffers
C18_Witness ==
    /\ BreathCalled
    /\ breath_in = <<>>
    /\ DOMAIN buffers = {0, 1}
    /\ Len(buffers[0]) >= 1 /\ Len(buffers[1]) >= 1
    /\ breathing.breathing_confidence = 0
    /\ breathing.per_person = <<>>

\* ------------------------------------------------------------------------
\* Properties of DetectionEngine._update_heatmap
\* ------------------------------------------------------------------------
\* the last step was one update
Updated == heat_in.step > 0 /\ heat_in.updates = 1

\* the update found no array, or one of another shape
Reshaped == ~heat_in.before.alloc \/ heat_in.before.shape # heat_in.shape

\* the pixel p was stamped by the last update
StampedNow(p) == Stamped(p, heat_in.centroids)

\* the heat value of age a is below the one of age b: the values fall with
\* the age, and 0.0 is below them all
HeatBelow(a, b) == b # Cold /\ (a = Cold \/ a > b)

\* C19: an update with frame dimensions other than the array's, the first
\* update included, discards the accumulated heat: the array is all-zero at
\* the new dimensions before the stamps and the decay of this frame, and the
\* update returns; with unchanged dimensions the heat of the array is kept.
C19_Realloc ==
    Updated =>
        /\ heatmap.alloc
        /\ heatmap.shape = heat_in.shape
        /\ DOMAIN heatmap.heat = PixelsOf(heat_in.shape)
        /\ Reshaped =>
              \A p \in DOMAIN heatmap.heat :
                  heatmap.heat[p] = IF StampedNow(p) THEN 1 ELSE Cold
        /\ ~Reshaped =>
              \A p \in DOMAIN heatmap.heat :
                  (~StampedNow(p) /\ heat_in.before.heat[p] # Cold)
                      => heatmap.heat[p] # Cold

\* a 480 x 640 array with heat at <<95, 10>> replaced by a 240 x 320 array
\* in which <<0, 10>> is stamped and <<95, 10>> is cold
C19_Witness ==
    /\ Updated
    /\ heat_in.before.alloc
    /\ heat_in.before.shape = FrameShape
    /\ heat_in.shape = <<240, 320>>
    /\ heat_in.before.heat[<<95, 10>>] # Cold
    /\ heatmap.heat[<<95, 10>>] = Cold
    /\ heatmap.heat[<<0, 10>>] = 1

\* C20, as stated: after an update every cell is in [0, decay], a stamped
\* cell is at unit intensity times the decay however many stamps cover it
\* and whatever heat it had, and a cell that is not stamped is below its
\* previous value if that was positive.
C20_Original ==
    Updated =>
        \A p \in DOMAIN heatmap.heat :
            /\ heatmap.heat[p] = Cold \/ heatmap.heat[p] >= 1
            /\ StampedNow(p) => heatmap.heat[p] = 1
            /\ (~StampedNow(p) /\ ~Reshaped /\ heat_in.before.heat[p] # Cold)
                  => HeatBelow(heatmap.heat[p], heat_in.before.heat[p])

\* C20, amended: after an update every cell is in [0, decay], a stamped cell
\* is at unit intensity times the decay however many stamps cover it and
\* whatever heat it had, and a cell that is not stamped never rises: it is
\* below its previous positive value until, HeatStall updates after its
\* stamp, it has reached 16 steps of the smallest float32, where it stays.
C20_Bounded ==
    Updated =>
        \A p \in DOMAIN heatmap.heat :
            /\ heatmap.heat[p] = Cold \/ heatmap.heat[p] \in 1..HeatStall
            /\ StampedNow(p) => heatmap.heat[p] = 1
            /\ (~StampedNow(p) /\ ~Reshaped /\ heat_in.before.heat[p] # Cold)
                  => IF heat_in.before.heat[p] < HeatStall
                     THEN HeatBelow(heatmap.heat[p], heat_in.before.heat[p])
                     ELSE heatmap.heat[p] = heat_in.before.heat[p]

\* an update that stamps <<600, 400>> and finds <<95, 10>> at the value
\* where the product no longer lowers it
C20_Witness ==
    /\ Updated
    /\ ~Reshaped
    /\ heat_in.shape = FrameShape
    /\ heat_in.before.heat[<<95, 10>>] = HeatStall
    /\ heatmap.heat[<<95, 10>>] = HeatStall
    /\ heatmap.heat[<<600, 400>>] = 1

\* ------------------------------------------------------------------------
\* Sustained presence
\* ------------------------------------------------------------------------
\* the frames from a through b had no detection
ZeroRun(a, b) == \A i \in a..b : frames[i].raw_count = 0

\* the frames after the j-th that had a detection
HitsAfter(j) == {i \in DOMAIN frames : i > j /\ frames[i].raw_count > 0}

\* C24: a streaming call among the first confirmation_min - 1 calls of an
\* engine returns confirmed = false, and a streaming call that returns
\* confirmed = true after a run of confirmation_window frames without a
\* detection comes when at least confirmation_min frames since that run had
\* a detection.
C24_Sustained ==
    (Called /\ ~LastFrame.is_photo) =>
        /\ Len(frames) < confirmation_min =>
              Returned /\ det.confirmed = FALSE
        /\ \A j \in DOMAIN frames :
              (/\ j >= confirmation_window
               /\ ZeroRun(j - confirmation_window + 1, j)
               /\ Returned /\ det.confirmed) =>
                  Cardinality(HitsAfter(j)) >= confirmation_min

\* a window of two or more frames that emptied and then confirmed again
C24_Witness ==
    /\ Called /\ ~LastFrame.is_photo
    /\ confirmation_window >= 2
    /\ \E j \in DOMAIN frames :
          /\ j >= confirmation_window
          /\ ZeroRun(j - confirmation_window + 1, j)
          /\ Cardinality(HitsAfter(j)) = confirmation_min
    /\ \A i \in DOMAIN frames : ~frames[i].is_photo
    /\ Returned /\ det.confirmed

\* ------------------------------------------------------------------------
\* Misses after a full window
\* ------------------------------------------------------------------------
\* the number of frames at the end of the log without a detection
Misses ==
    Cardinality({i \in DOMAIN frames :
                    \A j \in i..Len(frames) : frames[j].raw_count = 0})

\* the confirmation_window frames before those misses
FilledIdx ==
    {i \in DOMAIN frames : /\ i <= Len(frames) - Misses
                            /\ i > Len(frames) - Misses - confirmation_window}

\* a window filled with frames that all had a detection, then misses, the
\* last of them a streaming frame
MissesAfterFull ==
    /\ Called /\ ~LastFrame.is_photo
    /\ Misses >= 1
    /\ Cardinality(FilledIdx) = confirmation_window
    /\ \A i \in FilledIdx : frames[i].raw_count > 0

\* the k-th smallest count among the frames of the filled window
KthFilled(k) ==
    CHOOSE v \in {frames[i].raw_count : i \in FilledIdx} :
        /\ Cardinality({i \in FilledIdx : frames[i].raw_count < v}) < k
        /\ Cardinality({i \in FilledIdx : frames[i].raw_count <= v}) >= k

\* the count a streaming call reports on the filled window
FilledCount ==
    LET n == confirmation_window
    IN  (KthFilled((n + 1) \div 2) + KthFilled(n \div 2 + 1)) \div 2

\* C25, as stated: after a window filled with frames that all had a
\* detection, each of the next confirmation_window - confirmation_min frames
\* without a detection is confirmed with the count of the filled window, and
\* the following frame without a detection is unconfirmed with count 0.
C25_Original ==
    MissesAfterFull =>
        /\ Misses <= confirmation_window - confirmation_min =>
              /\ Returned /\ det.confirmed
              /\ det.survivor_count = FilledCount
        /\ Misses = confirmation_window - confirmation_min + 1 =>
              /\ Returned /\ ~det.confirmed
              /\ det.survivor_count = 0

\* C25, amended: each of the next confirmation_window - confirmation_min
\* frames without a detection is confirmed with the truncated median of the
\* non-zero counts still in the window, which is the count of the filled
\* window when its frames all had the same count; the following frame
\* without a detection is unconfirmed with count 0.
C25_Misses ==
    MissesAfterFull =>
        /\ Misses <= confirmation_window - confirmation_min =>
              /\ Returned /\ det.confirmed
              /\ det.survivor_count = MedianTwice \div 2
              /\ (\A i, j \in FilledIdx :
                     frames[i].raw_count = frames[j].raw_count) =>
                    det.survivor_count = FilledCount
        /\ Misses = confirmation_window - confirmation_min + 1 =>
              /\ Returned /\ ~det.confirmed
              /\ det.survivor_count = 0

\* the default window: twenty frames with detections, then the sixth miss
C25_Witness ==
    /\ MissesAfterFull
    /\ confirmation_window = DefaultWindow
    /\ confirmation_min = DefaultMin
    /\ Misses = DefaultWindow - DefaultMin + 1
    /\ ~det.confirmed /\ det.survivor_count = 0

\* ------------------------------------------------------------------------
\* Photo frames in the window
\* ------------------------------------------------------------------------
\* the frames of the window that were photo calls with a detection
PhotoHitIdx == {i \in HitIdx : frames[i].is_photo}

\* C29: a photo call appends its (raw_count, avg_confidence) to the window
\* as a streaming call does, evicting the oldest entry of a full window, so
\* that a later streaming call is confirmed exactly when the photo frames and
\* the streaming frames with a detection in the window together number at
\* least confirmation_min; and the smoothed confidence after a photo call is
\* the one a streaming call of the same confidence would leave.
C29_PhotoCounts ==
    /\ (Called /\ LastFrame.is_photo) =>
          /\ Len(history) = Min(Len(frames), confirmation_window)
          /\ history[Len(history)] = <<LastFrame.raw_count, LastFrame.avg_conf>>
          /\ Len(frames) > confirmation_window =>
                history[1][1] =
                    frames[Len(frames) - confirmation_window + 1].raw_count
          /\ Len(frames) = 1 =>
                smoothed_confidence =
                    Norm(ema_alpha[1] * LastFrame.avg_conf[1],
                         ema_alpha[2] * LastFrame.avg_conf[2])
    /\ (Called /\ ~LastFrame.is_photo) =>
          /\ Returned
          /\ det.confirmed <=>
                Cardinality(PhotoHitIdx) + Cardinality(HitIdx \ PhotoHitIdx)
                    >= confirmation_min

\* a streaming call that is confirmed only thanks to the photo frames in
\* its window
C29_Witness ==
    /\ Called /\ ~LastFrame.is_photo
    /\ det.confirmed
    /\ PhotoHitIdx # {}
    /\ Cardinality(HitIdx \ PhotoHitIdx) < confirmation_min
    /\ Len(frames) > confirmation_window

\* ------------------------------------------------------------------------
\* The buffers of BreathingAnalyzer
\* ------------------------------------------------------------------------
\* the buffer new is the buffer old after one append of x to a deque of the
\* given capacity: x is its last sample and the samples before it are those
\* of old, without the oldest when old was full
AppendedOne(old, new, x, size) ==
    LET drop == IF Len(old) = size THEN 1 ELSE 0
    IN  /\ Len(new) = Len(old) + 1 - drop
        /\ new[Len(new)] = x
        /\ \A k \in 1..(Len(new) - 1) : new[k] = old[k + drop]

\* C27: across analyse calls the set of buffer keys only grows and no buffer
\* holds more than buffer_size = int(fps * buffer_seconds) samples; a call
\* appends one sample to buffer i for every subject at position i of its
\* list that has a chest region (a new buffer starts empty) and leaves every
\* other buffer as it was, also the buffers of positions beyond the end of
\* the list.
C27_Buffers ==
    [][breath_calls' # breath_calls =>
          /\ DOMAIN buffers \subseteq DOMAIN buffers'
          /\ \A i \in DOMAIN buffers' : Len(buffers'[i]) <= buffer_size
          /\ \A i \in DOMAIN buffers' :
                IF i + 1 \in DOMAIN breath_in'
                   /\ ~RoiEmpty(breath_in'[i + 1].bbox, FrameShape)
                THEN AppendedOne(IF i \in DOMAIN buffers THEN buffers[i]
                                 ELSE <<>>,
                                 buffers'[i], breath_in'[i + 1].mean,
                                 buffer_size)
                ELSE i \in DOMAIN buffers /\ buffers'[i] = buffers[i]
          /\ \A k \in DOMAIN breath_in' :
                ~RoiEmpty(breath_in'[k].bbox, FrameShape) =>
                    k - 1 \in DOMAIN buffers']_vars

\* the buffer of the second position kept its samples through a frame with
\* one subject, whose full buffer dropped its oldest sample
C27_Witness ==
    /\ breath_calls > buffer_size
    /\ Len(breath_in) = 1
    /\ DOMAIN buffers = {0, 1}
    /\ Len(buffers[0]) = buffer_size
    /\ buffers[0][1] # buffers[0][buffer_size]
    /\ buffers[1] # <<>>

\* ------------------------------------------------------------------------
\* Configuration
\* ------------------------------------------------------------------------
\* C21, as stated: a confirmation window or a breathing buffer of
\* non-positive capacity is refused by the constructor, so that no detect
\* call runs on an engine with such a window and no analyse call on an
\* analyzer with such a buffer.
C21_Original ==
    /\ confirmation_window <= 0 => frame_idx = 0
    /\ buffer_size <= 0 => breath_calls = 0

\* ------------------------------------------------------------------------
\* Properties of ResQVisionPipeline.run_pipeline_frame
\* ------------------------------------------------------------------------
PipeCalled == frame_count > 0 /\ last_result.frame_count = frame_count

\* the Gemini agent was asked on the last frame
Asked == pipe_in.called /\ pipe_in.gemini.status \in {"success", "error"}

\* C22: a streaming frame asks the Gemini agent exactly when the pipeline's
\* frame_count is a multiple of 30, so never on two streaming frames in a
\* row, and every photo frame asks it; a frame that does not ask keeps the
\* pending analysis.
C22_Throttle ==
    PipeCalled =>
        /\ Asked \/ (~pipe_in.called /\ pipe_in.gemini = GeminiPending)
        /\ ~pipe_in.is_photo => (Asked <=> frame_count % 30 = 0)
        /\ pipe_in.is_photo => Asked
        /\ ~(/\ Asked /\ ~pipe_in.is_photo
             /\ pipe_in.prev.called /\ ~pipe_in.prev.is_photo)

\* the second throttled call of a stream, answered by the agent
C22_Witness ==
    /\ PipeCalled
    /\ frame_count = 60
    /\ ~pipe_in.is_photo
    /\ Asked /\ pipe_in.gemini.status = "success"
    /\ ~pipe_in.prev.called

\* the base scores of a dict whose flood term is left out of the sum
BaseScoresDry(d) ==
    RoundOutcomes(  WEIGHTS.survivor_count * SurvNorm(d)
                  + WEIGHTS.confidence_score * d.confidence_score
                  + WEIGHTS.fire_risk * Flag(d.fire_risk)
                  + WEIGHTS.crowd_density * d.crowd_density
                  + WEIGHTS.micro_motion_confidence * d.micro_motion_confidence,
                  Scale)

\* C23: on a frame of a pipeline whose mode is not 'flood' the flood result
\* is the default dict, the dict handed to the risk agent has flood_risk
\* false and water_coverage 0, and the risk score is the one of the other
\* factors alone, without flood weight or flood override; on a frame of a
\* pipeline whose mode is not 'rubble' the rubble result is the default
\* dict.  In its own mode each detector's result is the one returned.
C23_Dispatch ==
    PipeCalled =>
        /\ mode # "flood" =>
              /\ last_result.flood = DefaultFlood
              /\ data.flood_risk = FALSE /\ data.water_coverage = 0
              /\ risk.breakdown.flood_risk = 0
              /\ ExtraFlood(data) = 0
              /\ \E b \in BaseScoresDry(data) :
                    risk.risk_score = Clamp(b + ExtraFire(data)
                                              + ExtraCrowd(data))
        /\ mode # "rubble" => last_result.rubble = DefaultRubble
        /\ mode = "flood" =>
              /\ last_result.flood
                    \in FloodDetect(FrameShape, pipe_in.scene.water)
              /\ data.flood_risk = last_result.flood.flood_risk
              /\ data.water_coverage = last_result.flood.water_coverage
        /\ mode = "rubble" =>
              last_result.rubble
                  \in RubbleDetect(FrameShape, pipe_in.scene.rubble,
                                   pipe_in.scene.boxes)

\* a flooded street with persons in rubble, seen in rubble mode
C23_Witness ==
    /\ PipeCalled
    /\ mode = "rubble"
    /\ pipe_in.scene.water.pixels * 2 >= FrameShape[1] * FrameShape[2]
    /\ last_result.flood = DefaultFlood
    /\ Len(last_result.rubble.trapped_survivors) = 3
    /\ risk.risk_score > 0

\* C26, as stated: when the Gemini analysis of the last frame succeeded with
\* an overriding score, the dashboard shows that score for the frame's
\* result, with the level re-bucketed from it.
C26_Original ==
    (/\ PipeCalled
     /\ pipe_in.gemini.status = "success"
     /\ pipe_in.gemini.overriding_risk_score # NoScore) =>
        Displayed(last_result) =
            [risk_score |-> pipe_in.gemini.overriding_risk_score,
             risk_level |-> Rebucket(pipe_in.gemini.overriding_risk_score)]

\* C28, as stated: the report of a frame is generated on the first frame,
\* on every 100th frame and on a frame whose risk level differs from the
\* one of the frame before, and is the empty string on every other frame.
C28_Original ==
    PipeCalled =>
        (last_result.report # "" <=>
            \/ frame_count = 1
            \/ frame_count % 100 = 0
            \/ risk.risk_level # pipe_in.prev.risk_level)

\* the dict handed to the risk agent with every factor the pipeline measures
\* at its largest value, 1.0, and the flags as the pipeline set them
Saturated(d) ==
    [d EXCEPT !.survivor_count = 10, !.confidence_score = Scale,
              !.crowd_density = Scale, !.micro_motion_confidence = Scale]

\* C30: on every frame of the pipeline the dict handed to RiskAgent.assess
\* has no fire flag, no fire coverage and no heavy-crowd mode, so the fire
\* and crowd-crush additions are 0; its factors lie in [0, 1]; and in rubble
\* mode the risk score of the frame is at most 65 and the level is not
\* CRITICAL, as they are for the same dict with every factor at 1.0.
C30_NoOverrides ==
    PipeCalled =>
        /\ data.fire_risk = FALSE
        /\ data.fire_coverage = 0
        /\ data.is_heavy_crowd_mode = FALSE
        /\ ExtraFire(data) = 0
        /\ ExtraCrowd(data) = 0
        /\ data.confidence_score \in 0..Scale
        /\ data.crowd_density \in 0..Scale
        /\ data.micro_motion_confidence \in 0..Scale
        /\ mode = "rubble" =>
              /\ risk.risk_score <= 65
              /\ risk.risk_level # "CRITICAL"
              /\ \A r \in AssessResults(Saturated(data)) :
                    /\ risk.risk_score <= r.risk_score
                    /\ r.risk_score <= 65
                    /\ r.risk_level # "CRITICAL"

\* a rubble-mode frame whose crowd density is above the 0.4 of the
\* crowd-crush override and whose score is nonetheless the weighted sum
C30_Witness ==
    /\ PipeCalled
    /\ mode = "rubble"
    /\ data.crowd_density * 10 > 4 * Scale
    /\ risk.risk_score \in BaseScores(data)
    /\ risk.risk_score >= 30

====
